---------------------------- MODULE Spec2Model ----------------------------
(***************************************************************************)
(* DTLS record layer of ssl/record/methods/dtls_meth.c: the read path     *)
(* (Spec; SpecDrain with records in the processed queue; SpecLive under   *)
(* fairness; SpecProcess for dtls_process_record alone), the constructor   *)
(* with its failures (SpecNew), the write path (SpecWrite, SpecRetry) and  *)
(* the saturating subtraction of sequence numbers (SpecSat).               *)
(*                                                                         *)
(* The record layer object (OSSL_RECORD_LAYER) is the record variable rl.  *)
(* The C functions are operators from a layer value (and the inputs the    *)
(* environment supplies: datagram contents, results of the cipher, MAC and *)
(* allocation calls) to the layer value they leave behind.                 *)
(*                                                                         *)
(* 64-bit quantities do not fit TLC's integers: an 8-byte big-endian       *)
(* buffer is a tuple of 8 bytes, a uint64_t is a tuple of four 16-bit      *)
(* limbs (most significant first), and the 64-bit replay bitmap is the set *)
(* of the indices of its 1-bits.                                           *)
(***************************************************************************)
EXTENDS Integers, Sequences, FiniteSets, TLC

VARIABLES rl, pc, ret, wire, sink, last, feed, delivered,
          ws, sent, wlast, probe

\* the read side, the write side, and (probe) the arguments and result of
\* the function under test: satsub64be, dtls_new_record_layer
rvars == <<rl, pc, ret, wire, sink, last, feed, delivered>>
wvars == <<ws, sent, wlast>>
vars == <<rl, pc, ret, wire, sink, last, feed, delivered,
          ws, sent, wlast, probe>>

-----------------------------------------------------------------------------
(* Program constants *)

SEQ_NUM_SIZE == 8
DTLS1_RT_HEADER_LENGTH == 13
MapBits == 64
SatBound == 128
QueueLimit == 100

SSL3_RT_CHANGE_CIPHER_SPEC == 20
SSL3_RT_ALERT == 21
SSL3_RT_HANDSHAKE == 22
SSL3_RT_APPLICATION_DATA == 23

DTLS1_VERSION == 65279
DTLS1_2_VERSION == 65277
DTLS_ANY_VERSION == 131071
DTLS1_BAD_VER == 256
DTLS1_VERSION_MAJOR == 254

SSL3_RT_MAX_PLAIN_LENGTH == 16384
SSL3_RT_MAX_COMPRESSED_LENGTH == 17408
SSL3_RT_MAX_ENCRYPTED_OVERHEAD == 320
SSL3_RT_MAX_ENCRYPTED_LENGTH == 17728

SSL_AD_NO_ALERT == -1
SSL_AD_BAD_RECORD_MAC == 20
SSL_AD_RECORD_OVERFLOW == 22
SSL_AD_DECOMPRESSION_FAILURE == 30
SSL_AD_DECODE_ERROR == 50
SSL_AD_INTERNAL_ERROR == 80

OSSL_RECORD_RETURN_SUCCESS == 1
OSSL_RECORD_RETURN_RETRY == 0
OSSL_RECORD_RETURN_FATAL == -2

EVP_GCM_TLS_EXPLICIT_IV_LEN == 8
EVP_CCM_TLS_EXPLICIT_IV_LEN == 8

SSL_ST_READ_HEADER == 240
SSL_ST_READ_BODY == 241

(* Bounds of the model *)

MaxWire == 1
MaxChunks == 2
\* calls of the write functions in one run
MaxCalls == 2
\* pieces in which the transport takes one record
MaxPieces == 2
\* records waiting in the processed queue when a run starts
MaxProcessed == 2

NULL == "NULL"

-----------------------------------------------------------------------------
(* Bytes, big-endian buffers and 64-bit words *)

Byte == 0..255
Limb == 65536

\* the 6-byte sequence field of a record header holding the number n
B6(n) == << 0, 0, (n \div 16777216) % 256, (n \div 65536) % 256,
            (n \div 256) % 256, n % 256 >>

MaxSeq6 == << 255, 255, 255, 255, 255, 255 >>

ZeroSeq8 == << 0, 0, 0, 0, 0, 0, 0, 0 >>

\* memcpy(&(rl->sequence[2]), p, 6): bytes 0..1 of the buffer are kept
SetSeq6(sequence, p) == << sequence[1], sequence[2] >> \o p

\* n2l8: 8 big-endian bytes to a 64-bit word
n2l8(v) == << v[1] * 256 + v[2], v[3] * 256 + v[4],
              v[5] * 256 + v[6], v[7] * 256 + v[8] >>

\* unsigned l1 > l2
Gt64(l1, l2) ==
    \E i \in 1..4 : /\ l1[i] > l2[i]
                    /\ \A j \in 1..(i - 1) : l1[j] = l2[j]

\* borrow out of limb i (1 = most significant) of l1 - l2
RECURSIVE Borrow(_, _, _)
Borrow(l1, l2, i) ==
    IF i > 4 THEN 0
    ELSE IF l1[i] - l2[i] - Borrow(l1, l2, i + 1) < 0 THEN 1 ELSE 0

\* l1 - l2 modulo 2^64
Sub64(l1, l2) ==
    [i \in 1..4 |-> (l1[i] - l2[i] - Borrow(l1, l2, i + 1) + Limb) % Limb]

\* the word read as int64_t
Neg64(r) == r[1] >= Limb \div 2
Zero64(r) == \A i \in 1..4 : r[i] = 0
\* (int64_t)r > n and (int64_t)r < -n, for 0 <= n < 65536
GtInt64(r, n) == ~Neg64(r) /\ (r[1] # 0 \/ r[2] # 0 \/ r[3] # 0 \/ r[4] > n)
LtNegInt64(r, n) ==
    Neg64(r) /\ ~(r[1] = Limb - 1 /\ r[2] = Limb - 1 /\ r[3] = Limb - 1
                  /\ r[4] >= Limb - n)
\* (int)r for a word within [-65536, 65535]
ToInt(r) == IF Neg64(r) THEN r[4] - Limb ELSE r[4]

\* Mutation: the two tests for wrap-around are left out
Mut_satsub64be_no_wrap(v1, v2) ==
    LET l1 == n2l8(v1)
        l2 == n2l8(v2)
        r == Sub64(l1, l2)
    IN  IF GtInt64(r, SatBound) THEN SatBound
        ELSE IF LtNegInt64(r, SatBound) THEN -SatBound
        ELSE ToInt(r)

satsub64be(v1, v2) ==
    LET l1 == n2l8(v1)
        l2 == n2l8(v2)
        r == Sub64(l1, l2)
    IN  IF Gt64(l1, l2) /\ Neg64(r) THEN SatBound
        ELSE IF Gt64(l2, l1) /\ ~Neg64(r) /\ ~Zero64(r) THEN -SatBound
        ELSE IF GtInt64(r, SatBound) THEN SatBound
        ELSE IF LtNegInt64(r, SatBound) THEN -SatBound
        ELSE ToInt(r)

-----------------------------------------------------------------------------
(* Replay window: DTLS_BITMAP is [max_seq_num: 8 bytes, map: set of bit      *)
(* indices of the uint64_t].  A DTLS_BITMAP pointer is the name of the       *)
(* layer field it points to: "bitmap" or "next_bitmap".                      *)

\* map <<= shift on a uint64_t, 0 <= shift < 64
ShiftLeft(map, shift) == {i + shift : i \in {j \in map : j + shift < MapBits}}

\* SSL3_RECORD_set_seq_num(&rl->rrec[0], seq)
SSL3_RECORD_set_seq_num(r, seq) == [r EXCEPT !.rrec.seq_num = seq]

\* Mutation: the bit of the window is never consulted
Mut_replay_check_no_bit(r, bitmap) ==
    LET seq == r.sequence
        cmp == satsub64be(seq, r[bitmap].max_seq_num)
        shift == -cmp
    IN  IF cmp > 0 \/ shift < MapBits
        THEN [ret |-> 1, rl |-> SSL3_RECORD_set_seq_num(r, seq)]
        ELSE [ret |-> 0, rl |-> r]

\* Mutation: the width test is off by one (shift > 64 in place of >= 64)
Mut_replay_check_width(r, bitmap) ==
    LET seq == r.sequence
        cmp == satsub64be(seq, r[bitmap].max_seq_num)
        shift == -cmp
    IN  IF cmp > 0
        THEN [ret |-> 1, rl |-> SSL3_RECORD_set_seq_num(r, seq)]
        ELSE IF shift > MapBits
        THEN [ret |-> 0, rl |-> r]
        ELSE IF shift \in r[bitmap].map
        THEN [ret |-> 0, rl |-> r]
        ELSE [ret |-> 1, rl |-> SSL3_RECORD_set_seq_num(r, seq)]

\* result [ret, rl]: ret = 1 when the record is new, 0 when stale or repeated
dtls_record_replay_check(r, bitmap) ==
    LET seq == r.sequence
        cmp == satsub64be(seq, r[bitmap].max_seq_num)
        shift == -cmp
    IN  IF cmp > 0
        THEN [ret |-> 1, rl |-> SSL3_RECORD_set_seq_num(r, seq)]
        ELSE IF shift >= MapBits
        THEN [ret |-> 0, rl |-> r]
        ELSE IF shift \in r[bitmap].map
        THEN [ret |-> 0, rl |-> r]
        ELSE [ret |-> 1, rl |-> SSL3_RECORD_set_seq_num(r, seq)]

\* Mutation: a record behind max_seq_num is marked one bit too far
Mut_bitmap_update_off_by_one(r, bitmap) ==
    LET seq == r.sequence
        bm == r[bitmap]
        cmp == satsub64be(seq, bm.max_seq_num)
        shift == IF cmp > 0 THEN cmp ELSE -cmp
    IN  IF cmp > 0
        THEN [r EXCEPT ![bitmap] =
                 [max_seq_num |-> seq,
                  map |-> IF shift < MapBits
                          THEN ShiftLeft(bm.map, shift) \cup {0}
                          ELSE {0}]]
        ELSE IF shift + 1 < MapBits
        THEN [r EXCEPT ![bitmap].map = bm.map \cup {shift + 1}]
        ELSE r

\* Mutation: max_seq_num is overwritten by every record marked
Mut_bitmap_update_overwrites(r, bitmap) ==
    LET seq == r.sequence
        bm == r[bitmap]
        cmp == satsub64be(seq, bm.max_seq_num)
        shift == IF cmp > 0 THEN cmp ELSE -cmp
    IN  [r EXCEPT ![bitmap] =
            [max_seq_num |-> seq,
             map |-> IF cmp > 0 /\ shift < MapBits
                     THEN ShiftLeft(bm.map, shift) \cup {0}
                     ELSE IF cmp > 0 THEN {0}
                     ELSE bm.map \cup {shift}]]

dtls_record_bitmap_update(r, bitmap) ==
    LET seq == r.sequence
        bm == r[bitmap]
        cmp == satsub64be(seq, bm.max_seq_num)
        shift == IF cmp > 0 THEN cmp ELSE -cmp
    IN  IF cmp > 0
        THEN [r EXCEPT ![bitmap] =
                 [max_seq_num |-> seq,
                  map |-> IF shift < MapBits
                          THEN ShiftLeft(bm.map, shift) \cup {0}
                          ELSE {0}]]
        ELSE IF shift < MapBits
        THEN [r EXCEPT ![bitmap].map = bm.map \cup {shift}]
        ELSE r

\* Mutation: every record of the next epoch is routed, whatever its type
Mut_get_bitmap_any_type(r, rr) ==
    IF rr.epoch = r.epoch
    THEN [bitmap |-> "bitmap", is_next_epoch |-> 0]
    ELSE IF /\ rr.epoch = r.epoch + 1
            /\ r.unprocessed_rcds.epoch # r.epoch
    THEN [bitmap |-> "next_bitmap", is_next_epoch |-> 1]
    ELSE [bitmap |-> NULL, is_next_epoch |-> 0]

\* Mutation: the next window is handed out when the epoch recorded in the
\* unprocessed queue equals the epoch of the layer
Mut_get_bitmap_equal_epoch(r, rr) ==
    IF rr.epoch = r.epoch
    THEN [bitmap |-> "bitmap", is_next_epoch |-> 0]
    ELSE IF /\ rr.epoch = r.epoch + 1
            /\ r.unprocessed_rcds.epoch = r.epoch
            /\ rr.type \in {SSL3_RT_HANDSHAKE, SSL3_RT_ALERT}
    THEN [bitmap |-> "next_bitmap", is_next_epoch |-> 1]
    ELSE [bitmap |-> NULL, is_next_epoch |-> 0]

\* result [bitmap, is_next_epoch]; bitmap = NULL drops the record
dtls_get_bitmap(r, rr) ==
    IF rr.epoch = r.epoch
    THEN [bitmap |-> "bitmap", is_next_epoch |-> 0]
    ELSE IF /\ rr.epoch = r.epoch + 1
            /\ r.unprocessed_rcds.epoch # r.epoch
            /\ rr.type \in {SSL3_RT_HANDSHAKE, SSL3_RT_ALERT}
    THEN [bitmap |-> "next_bitmap", is_next_epoch |-> 1]
    ELSE [bitmap |-> NULL, is_next_epoch |-> 0]

dtls_set_in_init(r, in_init) == [r EXCEPT !.in_init = in_init]

\* RLAYERfatal(rl, al, reason): records the alert code
RLAYERfatal(r, al) == [r EXCEPT !.alert = al]

-----------------------------------------------------------------------------
(* Priority queue (pqueue): a sequence of items in ascending order of their  *)
(* 8-byte priority, compared as memcmp compares them.                        *)

\* memcmp(a, b, 8) < 0
MemLt(a, b) ==
    \E i \in 1..SEQ_NUM_SIZE : /\ a[i] < b[i]
                               /\ \A j \in 1..(i - 1) : a[j] = b[j]

pqueue_size(q) == Len(q)

\* result [null, q]: null (NULL returned) when an item of equal priority is
\* queued already
pqueue_insert(q, item) ==
    IF \E i \in 1..Len(q) : q[i].priority = item.priority
    THEN [null |-> TRUE, q |-> q]
    ELSE LET k == Cardinality({i \in 1..Len(q) : MemLt(q[i].priority, item.priority)})
         IN  [null |-> FALSE,
              q |-> SubSeq(q, 1, k) \o <<item>> \o SubSeq(q, k + 1, Len(q))]

\* result [null, item, q]: null when the queue is empty (no item is returned)
pqueue_pop(q) ==
    IF Len(q) = 0 THEN [null |-> TRUE, q |-> q]
    ELSE [null |-> FALSE, item |-> Head(q), q |-> Tail(q)]

-----------------------------------------------------------------------------
(* Records *)

\* rl->packet = NULL: no raw packet
NoPacket == [type |-> 0, major |-> 0, minor |-> 0, epoch |-> 0,
             seq |-> B6(0), length |-> 0]

\* memset(&rl->rrec[0], 0, sizeof(rl->rrec[0]))
ZeroRec == [type |-> 0, epoch |-> 0, length |-> 0, seq_num |-> ZeroSeq8]

\* rr->length = 0; rl->packet_length = 0
Dump(r) == [r EXCEPT !.rrec.length = 0, !.packet_length = 0]

\* Mutation: the limit test is off by one (size > 100 in place of >= 100)
Mut_buffer_record_limit(r, queue, priority, c) ==
    IF pqueue_size(r[queue].q) > QueueLimit
    THEN [ret |-> 0, rl |-> r]
    ELSE IF ~c.alloc_ok
    THEN [ret |-> -1, rl |-> RLAYERfatal(r, SSL_AD_INTERNAL_ERROR)]
    ELSE
      LET rdata == [packet |-> r.packet, packet_length |-> r.packet_length,
                    rbuf_buf |-> r.rbuf_buf, rbuf_left |-> r.rbuf_left,
                    rrec |-> r.rrec]
          item == [priority |-> priority, data |-> rdata]
          r1 == [r EXCEPT !.packet = NoPacket, !.packet_length = 0,
                          !.rbuf_buf = FALSE, !.rbuf_left = 0,
                          !.rrec = ZeroRec]
          ins == pqueue_insert(r1[queue].q, item)
      IN  IF ~c.setup_ok
          THEN [ret |-> -1, rl |-> RLAYERfatal(r1, SSL_AD_INTERNAL_ERROR)]
          ELSE [ret |-> 1,
                rl |-> [r1 EXCEPT !.rbuf_buf = TRUE, ![queue].q = ins.q]]

\* Mutation: an insertion the queue refuses is reported as a failure
Mut_buffer_record_dup_fails(r, queue, priority, c) ==
    IF pqueue_size(r[queue].q) >= QueueLimit
    THEN [ret |-> 0, rl |-> r]
    ELSE IF ~c.alloc_ok
    THEN [ret |-> -1, rl |-> RLAYERfatal(r, SSL_AD_INTERNAL_ERROR)]
    ELSE
      LET rdata == [packet |-> r.packet, packet_length |-> r.packet_length,
                    rbuf_buf |-> r.rbuf_buf, rbuf_left |-> r.rbuf_left,
                    rrec |-> r.rrec]
          item == [priority |-> priority, data |-> rdata]
          r1 == [r EXCEPT !.packet = NoPacket, !.packet_length = 0,
                          !.rbuf_buf = FALSE, !.rbuf_left = 0,
                          !.rrec = ZeroRec]
          ins == pqueue_insert(r1[queue].q, item)
      IN  IF ~c.setup_ok \/ ins.null
          THEN [ret |-> -1, rl |-> RLAYERfatal(r1, SSL_AD_INTERNAL_ERROR)]
          ELSE [ret |-> 1,
                rl |-> [r1 EXCEPT !.rbuf_buf = TRUE, ![queue].q = ins.q]]

\* c: what the allocator answers: [alloc_ok, setup_ok]
\* result [ret, rl]
dtls_rlayer_buffer_record(r, queue, priority, c) ==
    IF pqueue_size(r[queue].q) >= QueueLimit
    THEN [ret |-> 0, rl |-> r]
    ELSE IF ~c.alloc_ok
    THEN [ret |-> -1, rl |-> RLAYERfatal(r, SSL_AD_INTERNAL_ERROR)]
    ELSE
      LET rdata == [packet |-> r.packet, packet_length |-> r.packet_length,
                    rbuf_buf |-> r.rbuf_buf, rbuf_left |-> r.rbuf_left,
                    rrec |-> r.rrec]
          item == [priority |-> priority, data |-> rdata]
          r1 == [r EXCEPT !.packet = NoPacket, !.packet_length = 0,
                          !.rbuf_buf = FALSE, !.rbuf_left = 0,
                          !.rrec = ZeroRec]
          ins == pqueue_insert(r1[queue].q, item)
      IN  IF ~c.setup_ok
          THEN [ret |-> -1, rl |-> RLAYERfatal(r1, SSL_AD_INTERNAL_ERROR)]
          ELSE [ret |-> 1,
                rl |-> [r1 EXCEPT !.rbuf_buf = TRUE, ![queue].q = ins.q]]

dtls_copy_rlayer_record(r, item) ==
    [r EXCEPT !.packet = item.data.packet,
              !.packet_length = item.data.packet_length,
              !.rbuf_buf = item.data.rbuf_buf,
              !.rbuf_left = item.data.rbuf_left,
              !.rrec = item.data.rrec,
              !.sequence = SetSeq6(r.sequence, item.data.packet.seq)]

\* Mutation: the item is taken off the queue but not copied into the layer
Mut_retrieve_no_copy(r, queue) ==
    LET p == pqueue_pop(r[queue].q)
    IN  IF ~p.null
        THEN [ret |-> 1, rl |-> [r EXCEPT ![queue].q = p.q]]
        ELSE [ret |-> 0, rl |-> r]

\* result [ret, rl]
dtls_retrieve_rlayer_buffered_record(r, queue) ==
    LET p == pqueue_pop(r[queue].q)
    IN  IF ~p.null
        THEN [ret |-> 1,
              rl |-> dtls_copy_rlayer_record([r EXCEPT ![queue].q = p.q], p.item)]
        ELSE [ret |-> 0, rl |-> r]

-----------------------------------------------------------------------------
(* dtls_process_record.  c is what the cipher, MAC and compression calls     *)
(* answer for this record:                                                   *)
(*   imac_ok       EVP_MD_get_size is within [0, EVP_MAX_MD_SIZE]            *)
(*   etm_mac_ok    encrypt-then-MAC: the MAC computed equals the one carried *)
(*   cipher        "ok" (enc_err 1), "fail" (enc_err 0) or "fatal" (enc_err  *)
(*                 0 and the cipher called RLAYERfatal)                      *)
(*   strip         bytes the cipher removes (IV, padding, MAC, tag)          *)
(*   mte_mac_ok    MAC-then-encrypt: the MAC is present and matches          *)
(*   uncompress_ok tls_do_uncompress succeeds;  grow  bytes it adds          *)
(* result [ret, rl]                                                          *)

MacSize(r) == IF r.md_ctx /\ r.md THEN r.mac_size ELSE 0

\* Mutation: a record that is too long or does not decompress is given up
\* without an alert
Mut_ProcessTail_silent(r, bitmap, c) ==
    LET r1 == IF r.compctx
              THEN [r EXCEPT !.rrec.length = r.rrec.length + c.grow]
              ELSE r
    IN  IF r.compctx /\ r.rrec.length > SSL3_RT_MAX_COMPRESSED_LENGTH
        THEN [ret |-> 0, rl |-> r]
        ELSE IF r.compctx /\ ~c.uncompress_ok
        THEN [ret |-> 0, rl |-> r]
        ELSE IF r1.rrec.length > r1.max_frag_len
        THEN [ret |-> 0, rl |-> r1]
        ELSE [ret |-> 1,
              rl |-> dtls_record_bitmap_update(
                         [r1 EXCEPT !.packet_length = 0], bitmap)]

\* lines 239-277: after the record is decrypted and authenticated
ProcessTail(r, bitmap, c) ==
    LET r1 == IF r.compctx
              THEN [r EXCEPT !.rrec.length = r.rrec.length + c.grow]
              ELSE r
    IN  IF r.compctx /\ r.rrec.length > SSL3_RT_MAX_COMPRESSED_LENGTH
        THEN [ret |-> 0, rl |-> RLAYERfatal(r, SSL_AD_RECORD_OVERFLOW)]
        ELSE IF r.compctx /\ ~c.uncompress_ok
        THEN [ret |-> 0, rl |-> RLAYERfatal(r, SSL_AD_DECOMPRESSION_FAILURE)]
        ELSE IF r1.rrec.length > r1.max_frag_len
        THEN [ret |-> 0, rl |-> RLAYERfatal(r1, SSL_AD_RECORD_OVERFLOW)]
        ELSE [ret |-> 1,
              rl |-> dtls_record_bitmap_update(
                         [r1 EXCEPT !.packet_length = 0], bitmap)]

\* Mutation: a failed decryption or MAC-then-encrypt check is not acted on
Mut_ProcessCipher_unchecked(r, bitmap, c, mac_size) ==
    LET len == IF c.strip <= r.rrec.length
               THEN r.rrec.length - c.strip ELSE 0
    IN  ProcessTail([r EXCEPT !.rrec.length = len], bitmap, c)

\* lines 187-237: decryption and the MAC-then-encrypt check;
\* mac_size is 0 when encrypt-then-MAC has already handled the MAC
ProcessCipher(r, bitmap, c, mac_size) ==
    IF c.cipher # "ok"
    THEN LET r1 == IF c.cipher = "fatal"
                   THEN RLAYERfatal(r, SSL_AD_INTERNAL_ERROR) ELSE r
         IN  IF r1.alert # SSL_AD_NO_ALERT
             THEN [ret |-> 0, rl |-> r1]
             ELSE [ret |-> 0, rl |-> Dump(r1)]
    ELSE
      LET len == IF c.strip <= r.rrec.length
                 THEN r.rrec.length - c.strip ELSE 0
          r1 == [r EXCEPT !.rrec.length = len]
          mte == ~r.use_etm /\ r.enc_ctx /\ r.md_ctx /\ r.md
          enc_err == IF mte /\ (~c.mte_mac_ok
                                \/ len > SSL3_RT_MAX_COMPRESSED_LENGTH + mac_size)
                     THEN 0 ELSE 1
      IN  IF enc_err = 0
          THEN [ret |-> 0, rl |-> Dump(r1)]
          ELSE ProcessTail(r1, bitmap, c)

\* Mutation: with encrypt-then-MAC a MAC that does not match drops the
\* record as a failed decryption does
Mut_process_record_etm_drop(r, bitmap, c) ==
    LET mac_size == MacSize(r)
    IN  IF r.rrec.length > SSL3_RT_MAX_ENCRYPTED_LENGTH
        THEN [ret |-> 0, rl |-> RLAYERfatal(r, SSL_AD_RECORD_OVERFLOW)]
        ELSE IF r.md_ctx /\ r.md /\ ~c.imac_ok
        THEN [ret |-> 0, rl |-> RLAYERfatal(r, SSL_AD_INTERNAL_ERROR)]
        ELSE IF r.use_etm /\ r.md_ctx
        THEN IF r.rrec.length < mac_size
             THEN [ret |-> 0, rl |-> RLAYERfatal(r, SSL_AD_DECODE_ERROR)]
             ELSE IF ~c.etm_mac_ok
             THEN [ret |-> 0, rl |-> Dump(r)]
             ELSE ProcessCipher(
                      [r EXCEPT !.rrec.length = r.rrec.length - mac_size],
                      bitmap, c, 0)
        ELSE ProcessCipher(r, bitmap, c, mac_size)

dtls_process_record(r, bitmap, c) ==
    LET mac_size == MacSize(r)
    IN  IF r.rrec.length > SSL3_RT_MAX_ENCRYPTED_LENGTH
        THEN [ret |-> 0, rl |-> RLAYERfatal(r, SSL_AD_RECORD_OVERFLOW)]
        ELSE IF r.md_ctx /\ r.md /\ ~c.imac_ok
        THEN [ret |-> 0, rl |-> RLAYERfatal(r, SSL_AD_INTERNAL_ERROR)]
        ELSE IF r.use_etm /\ r.md_ctx
        THEN IF r.rrec.length < mac_size
             THEN [ret |-> 0, rl |-> RLAYERfatal(r, SSL_AD_DECODE_ERROR)]
             ELSE IF ~c.etm_mac_ok
             THEN [ret |-> 0,
                   rl |-> RLAYERfatal(
                              [r EXCEPT !.rrec.length = r.rrec.length - mac_size],
                              SSL_AD_BAD_RECORD_MAC)]
             ELSE ProcessCipher(
                      [r EXCEPT !.rrec.length = r.rrec.length - mac_size],
                      bitmap, c, 0)
        ELSE ProcessCipher(r, bitmap, c, mac_size)

-----------------------------------------------------------------------------
(* dtls_get_more_records, one pass from the label `again`.  A stage returns  *)
(* [k, ret, rl, v]: k = "return" (the call returns ret), "again" (goto       *)
(* again) or the name of the stage that follows; v names the place reached.  *)

\* a record header as it is on the wire:
\* [type, major, minor, epoch, seq (6 bytes), length]
HdrVersion(hdr) == hdr.major * 256 + hdr.minor

\* Mutation: the length field is not tested when the header is parsed
Mut_ParseHeader_no_length(r, hdr) ==
    LET r1 == [r EXCEPT !.rstate = SSL_ST_READ_BODY,
                        !.rrec.type = hdr.type,
                        !.rrec.epoch = hdr.epoch,
                        !.sequence = SetSeq6(r.sequence, hdr.seq),
                        !.rrec.length = hdr.length]
        version == HdrVersion(hdr)
    IN  IF /\ ~r1.is_first_record
           /\ r1.rrec.type # SSL3_RT_ALERT
           /\ version # r1.version
        THEN [k |-> "again", ret |-> 0, rl |-> Dump(r1), v |-> "version"]
        ELSE IF hdr.major # (IF r1.version = DTLS_ANY_VERSION
                             THEN DTLS1_VERSION_MAJOR
                             ELSE r1.version \div 256)
        THEN [k |-> "again", ret |-> 0, rl |-> Dump(r1), v |-> "major"]
        ELSE [k |-> "body", ret |-> 0, rl |-> r1, v |-> "header"]

\* Mutation: alerts get no exemption from the exact version test
Mut_ParseHeader_strict_alert(r, hdr) ==
    LET r1 == [r EXCEPT !.rstate = SSL_ST_READ_BODY,
                        !.rrec.type = hdr.type,
                        !.rrec.epoch = hdr.epoch,
                        !.sequence = SetSeq6(r.sequence, hdr.seq),
                        !.rrec.length = hdr.length]
        version == HdrVersion(hdr)
    IN  IF ~r1.is_first_record /\ version # r1.version
        THEN [k |-> "again", ret |-> 0, rl |-> Dump(r1), v |-> "version"]
        ELSE IF hdr.major # (IF r1.version = DTLS_ANY_VERSION
                             THEN DTLS1_VERSION_MAJOR
                             ELSE r1.version \div 256)
        THEN [k |-> "again", ret |-> 0, rl |-> Dump(r1), v |-> "major"]
        ELSE IF r1.rrec.length > SSL3_RT_MAX_ENCRYPTED_LENGTH
        THEN [k |-> "again", ret |-> 0, rl |-> Dump(r1), v |-> "too_long"]
        ELSE IF r1.rrec.length > r1.max_frag_len + SSL3_RT_MAX_ENCRYPTED_OVERHEAD
        THEN [k |-> "again", ret |-> 0, rl |-> Dump(r1), v |-> "frag_overflow"]
        ELSE [k |-> "body", ret |-> 0, rl |-> r1, v |-> "header"]

\* lines 430-493: the header is in rl->packet; parse and validate it
ParseHeader(r, hdr) ==
    LET r1 == [r EXCEPT !.rstate = SSL_ST_READ_BODY,
                        !.rrec.type = hdr.type,
                        !.rrec.epoch = hdr.epoch,
                        !.sequence = SetSeq6(r.sequence, hdr.seq),
                        !.rrec.length = hdr.length]
        version == HdrVersion(hdr)
    IN  IF /\ ~r1.is_first_record
           /\ r1.rrec.type # SSL3_RT_ALERT
           /\ version # r1.version
        THEN [k |-> "again", ret |-> 0, rl |-> Dump(r1), v |-> "version"]
        ELSE IF hdr.major # (IF r1.version = DTLS_ANY_VERSION
                             THEN DTLS1_VERSION_MAJOR
                             ELSE r1.version \div 256)
        THEN [k |-> "again", ret |-> 0, rl |-> Dump(r1), v |-> "major"]
        ELSE IF r1.rrec.length > SSL3_RT_MAX_ENCRYPTED_LENGTH
        THEN [k |-> "again", ret |-> 0, rl |-> Dump(r1), v |-> "too_long"]
        ELSE IF r1.rrec.length > r1.max_frag_len + SSL3_RT_MAX_ENCRYPTED_OVERHEAD
        THEN [k |-> "again", ret |-> 0, rl |-> Dump(r1), v |-> "frag_overflow"]
        ELSE [k |-> "body", ret |-> 0, rl |-> r1, v |-> "header"]

\* line 497
NeedBody(r) == r.rrec.length > r.packet_length - DTLS1_RT_HEADER_LENGTH

\* Mutation: a retry of the body read is returned to the caller with the
\* header kept
Mut_ReadBody_retry_returns(r, b) ==
    LET more == r.rrec.length
    IN  IF b = "fatal"
        THEN [k |-> "return", ret |-> OSSL_RECORD_RETURN_FATAL,
              rl |-> RLAYERfatal(r, SSL_AD_INTERNAL_ERROR), v |-> "body_fatal"]
        ELSE IF b = "retry"
        THEN [k |-> "return", ret |-> OSSL_RECORD_RETURN_RETRY, rl |-> r,
              v |-> "short_body"]
        ELSE IF b = "err"
        THEN [k |-> "again", ret |-> 0, rl |-> Dump(r), v |-> "short_body"]
        ELSE IF b = "short"
        THEN [k |-> "again", ret |-> 0,
              rl |-> Dump([r EXCEPT !.packet_length = r.packet_length + more - 1]),
              v |-> "short_body"]
        ELSE [k |-> "route", ret |-> 0,
              rl |-> [r EXCEPT !.packet_length = r.packet_length + more],
              v |-> "body"]

\* lines 497-516: b is what read_n answers for the body:
\* "ok" (n = more), "short" (success with n < more), "retry" (rret is
\* OSSL_RECORD_RETURN_RETRY), "err" (another rret below success, no alert)
\* or "fatal" (read_n called RLAYERfatal)
ReadBody(r, b) ==
    LET more == r.rrec.length
    IN  IF b = "fatal"
        THEN [k |-> "return", ret |-> OSSL_RECORD_RETURN_FATAL,
              rl |-> RLAYERfatal(r, SSL_AD_INTERNAL_ERROR), v |-> "body_fatal"]
        ELSE IF b \in {"err", "retry"}
        THEN [k |-> "again", ret |-> 0, rl |-> Dump(r), v |-> "short_body"]
        ELSE IF b = "short"
        THEN [k |-> "again", ret |-> 0,
              rl |-> Dump([r EXCEPT !.packet_length = r.packet_length + more - 1]),
              v |-> "short_body"]
        ELSE [k |-> "route", ret |-> 0,
              rl |-> [r EXCEPT !.packet_length = r.packet_length + more],
              v |-> "body"]

\* Mutation: a record that passes the replay check is marked in the window
\* at once, before its length is looked at and before it is authenticated
Mut_Route_marks_early(r) ==
    LET r1 == [r EXCEPT !.rstate = SSL_ST_READ_HEADER]
        g == dtls_get_bitmap(r1, r1.rrec)
        chk == IF r1.sctp THEN [ret |-> 1, rl |-> r1]
               ELSE dtls_record_replay_check(r1, g.bitmap)
        marked == dtls_record_bitmap_update(chk.rl, g.bitmap)
        out(k, rr, v) == [k |-> k, ret |-> 0, rl |-> rr, v |-> v,
                          bitmap |-> g.bitmap, is_next_epoch |-> g.is_next_epoch]
    IN  IF g.bitmap = NULL THEN out("again", Dump(r1), "no_route")
        ELSE IF chk.ret = 0 THEN out("again", Dump(r1), "replay")
        ELSE IF marked.rrec.length = 0 THEN out("again", marked, "zero_length")
        ELSE IF g.is_next_epoch = 1 THEN out("next_epoch", marked, "routed")
        ELSE out("process", marked, "routed")

\* lines 517-543: epoch routing, replay check, zero length.
\* The result also carries the window chosen and is_next_epoch.
Route(r) ==
    LET r1 == [r EXCEPT !.rstate = SSL_ST_READ_HEADER]
        g == dtls_get_bitmap(r1, r1.rrec)
        chk == IF r1.sctp THEN [ret |-> 1, rl |-> r1]
               ELSE dtls_record_replay_check(r1, g.bitmap)
        out(k, rr, v) == [k |-> k, ret |-> 0, rl |-> rr, v |-> v,
                          bitmap |-> g.bitmap, is_next_epoch |-> g.is_next_epoch]
    IN  IF g.bitmap = NULL THEN out("again", Dump(r1), "no_route")
        ELSE IF chk.ret = 0 THEN out("again", Dump(r1), "replay")
        ELSE IF chk.rl.rrec.length = 0 THEN out("again", chk.rl, "zero_length")
        ELSE IF g.is_next_epoch = 1 THEN out("next_epoch", chk.rl, "routed")
        ELSE out("process", chk.rl, "routed")

\* Mutation: a refusal by the full queue is taken for a failure
Mut_NextEpoch_full_is_fatal(r, c) ==
    IF r.in_init = 1
    THEN LET b == dtls_rlayer_buffer_record(r, "unprocessed_rcds",
                                            r.rrec.seq_num, c)
         IN  IF b.ret <= 0
             THEN [k |-> "return", ret |-> OSSL_RECORD_RETURN_FATAL,
                   rl |-> b.rl,
                   v |-> IF b.ret = 0 THEN "queue_full" ELSE "buffer_fatal"]
             ELSE [k |-> "again", ret |-> 0, rl |-> Dump(b.rl),
                   v |-> IF Len(b.rl.unprocessed_rcds.q)
                              = Len(r.unprocessed_rcds.q)
                         THEN "queue_duplicate" ELSE "buffered"]
    ELSE [k |-> "again", ret |-> 0, rl |-> Dump(r), v |-> "not_in_init"]

\* Mutation: a record that is buffered is marked in the next window
Mut_NextEpoch_marks_window(r, c) ==
    IF r.in_init = 1
    THEN LET b == dtls_rlayer_buffer_record(r, "unprocessed_rcds",
                                            r.rrec.seq_num, c)
             m == dtls_record_bitmap_update(b.rl, "next_bitmap")
         IN  IF b.ret < 0
             THEN [k |-> "return", ret |-> OSSL_RECORD_RETURN_FATAL,
                   rl |-> b.rl, v |-> "buffer_fatal"]
             ELSE [k |-> "again", ret |-> 0, rl |-> Dump(m),
                   v |-> IF b.ret = 0 THEN "queue_full"
                         ELSE IF Len(b.rl.unprocessed_rcds.q)
                                   = Len(r.unprocessed_rcds.q)
                         THEN "queue_duplicate" ELSE "buffered"]
    ELSE [k |-> "again", ret |-> 0, rl |-> Dump(r), v |-> "not_in_init"]

\* lines 550-561: a record of the next epoch; c is the allocator's answer
NextEpoch(r, c) ==
    IF r.in_init = 1
    THEN LET b == dtls_rlayer_buffer_record(r, "unprocessed_rcds",
                                            r.rrec.seq_num, c)
         IN  IF b.ret < 0
             THEN [k |-> "return", ret |-> OSSL_RECORD_RETURN_FATAL,
                   rl |-> b.rl, v |-> "buffer_fatal"]
             ELSE [k |-> "again", ret |-> 0, rl |-> Dump(b.rl),
                   v |-> IF b.ret = 0 THEN "queue_full"
                         ELSE IF Len(b.rl.unprocessed_rcds.q)
                                   = Len(r.unprocessed_rcds.q)
                         THEN "queue_duplicate" ELSE "buffered"]
    ELSE [k |-> "again", ret |-> 0, rl |-> Dump(r), v |-> "not_in_init"]

\* lines 563-574: c is the cipher's, MAC's and compression's answer
Process(r, bitmap, c) ==
    LET p == dtls_process_record(r, bitmap, c)
    IN  IF p.ret = 0
        THEN IF p.rl.alert # SSL_AD_NO_ALERT
             THEN [k |-> "return", ret |-> OSSL_RECORD_RETURN_FATAL,
                   rl |-> p.rl, v |-> "process_fatal"]
             ELSE [k |-> "again", ret |-> 0, rl |-> Dump(p.rl),
                   v |-> "process_drop"]
        ELSE [k |-> "return", ret |-> OSSL_RECORD_RETURN_SUCCESS,
              rl |-> [p.rl EXCEPT !.num_recs = 1], v |-> "delivered"]

-----------------------------------------------------------------------------
(* dtls_free: leftover bytes of the read buffer and the raw packets of the   *)
(* unprocessed queue are written to rl->next; both queues are emptied.       *)
(* result [rl, writes]: writes are the BIO_write_ex calls in order, each     *)
(* [data, len].                                                              *)

\* BIO_write_ex(rl->next, rbuf->buf + rbuf->offset, left, &written): the
\* bytes of the read buffer are known by their count alone
RbufWrite(left) == [from |-> "rbuf", data |-> NoPacket, len |-> left]

\* BIO_write_ex(rl->next, rdata->packet, rdata->packet_length, &written)
PacketWrite(item) ==
    [from |-> "packet", data |-> item.data.packet,
     len |-> item.data.packet_length]

RECURSIVE DrainWrites(_)
DrainWrites(q) ==
    LET p == pqueue_pop(q)
    IN  IF p.null THEN << >>
        ELSE << PacketWrite(p.item) >> \o DrainWrites(p.q)

\* Mutation: the queue is popped once (if in place of while)
Mut_free_pops_once(r) ==
    LET left == r.rbuf_left
        w0 == IF left > 0 THEN << RbufWrite(left) >> ELSE << >>
        p == pqueue_pop(r.unprocessed_rcds.q)
    IN  [rl |-> [r EXCEPT !.rbuf_left = 0,
                          !.unprocessed_rcds.q = << >>,
                          !.processed_rcds.q = << >>],
         writes |-> w0 \o (IF p.null THEN << >> ELSE << PacketWrite(p.item) >>)]

dtls_free(r) ==
    LET left == r.rbuf_left
        w0 == IF left > 0 THEN << RbufWrite(left) >> ELSE << >>
    IN  [rl |-> [r EXCEPT !.rbuf_left = 0,
                          !.unprocessed_rcds.q = << >>,
                          !.processed_rcds.q = << >>],
         writes |-> w0 \o DrainWrites(r.unprocessed_rcds.q)]

-----------------------------------------------------------------------------
(* dtls_new_record_layer: the layer after construction.  cfg holds what the  *)
(* caller passes or negotiates: epoch, version, is_first_record, use_etm,    *)
(* md_ctx, md, mac_size, enc_ctx, compctx, max_frag_len, sctp.               *)

dtls_new_record_layer(cfg) ==
    [epoch |-> cfg.epoch, version |-> cfg.version,
     is_first_record |-> cfg.is_first_record,
     use_etm |-> cfg.use_etm, md_ctx |-> cfg.md_ctx, md |-> cfg.md,
     mac_size |-> cfg.mac_size, enc_ctx |-> cfg.enc_ctx,
     compctx |-> cfg.compctx, max_frag_len |-> cfg.max_frag_len,
     sctp |-> cfg.sctp,
     in_init |-> 1,
     alert |-> SSL_AD_NO_ALERT,
     rstate |-> SSL_ST_READ_HEADER,
     packet |-> NoPacket, packet_length |-> 0,
     rbuf_buf |-> FALSE, rbuf_left |-> 0,
     num_recs |-> 0,
     rrec |-> ZeroRec,
     sequence |-> ZeroSeq8,
     bitmap |-> [max_seq_num |-> ZeroSeq8, map |-> {}],
     next_bitmap |-> [max_seq_num |-> ZeroSeq8, map |-> {}],
     unprocessed_rcds |-> [epoch |-> (cfg.epoch + 1) % Limb, q |-> << >>],
     processed_rcds |-> [epoch |-> cfg.epoch, q |-> << >>]]

-----------------------------------------------------------------------------
(* Write path: ssl3_write_pending and dtls_write_records.  The write side    *)
(* is the record ws: the fields of the SSL_CONNECTION the two functions use  *)
(* (write_sequence, w_epoch, the write cipher and hash, mode, wbio, the      *)
(* memorised wpend_* arguments, the alert raised by SSLfatal) and the write  *)
(* buffer rl->wbuf[0] (allocated, the record header it holds, offset,        *)
(* left).  ws.pc is "idle" between calls and "pending" inside the send loop  *)
(* of ssl3_write_pending, whose arguments and locals are arg_type and        *)
(* tmpwrit.                                                                  *)

\* ssl3_record_sequence_update: the 8-byte big-endian counter plus one, the
\* carry running from byte i to the front
RECURSIVE SeqInc(_, _)
SeqInc(seq, i) ==
    IF i = 0 THEN seq
    ELSE IF seq[i] = 255 THEN SeqInc([seq EXCEPT ![i] = 0], i - 1)
    ELSE [seq EXCEPT ![i] = seq[i] + 1]

ssl3_record_sequence_update(seq) == SeqInc(seq, SEQ_NUM_SIZE)

\* SSLfatal(s, al, reason)
SSLfatal(s, al, reason) == [s EXCEPT !.alert = al, !.reason = reason]

\* a write buffer holding no record header
NoHeader == [type |-> 0, version |-> 0, epoch |-> 0,
             seq |-> << 0, 0, 0, 0, 0, 0 >>, length |-> 0]

\* Mutation: a retry is refused whenever any of the three arguments differs
Mut_write_pending_enter_exact(s, type, buf, len) ==
    IF \/ s.wpend_tot # len
       \/ s.wpend_buf # buf
       \/ s.wpend_type # type
    THEN [k |-> "return", ret |-> -1, v |-> "bad_write_retry",
          ws |-> SSLfatal(s, SSL_AD_INTERNAL_ERROR, "SSL_R_BAD_WRITE_RETRY")]
    ELSE [k |-> "pending", ret |-> 0, v |-> "pending",
          ws |-> [s EXCEPT !.pc = "pending", !.arg_type = type,
                           !.tmpwrit = 0]]

\* ssl3_write_pending, lines 701-718: the test of the retry against the
\* memorised arguments.  result [k, ret, v, ws]
ssl3_write_pending_enter(s, type, buf, len) ==
    IF \/ s.wpend_tot > len
       \/ (~s.moving /\ s.wpend_buf # buf)
       \/ s.wpend_type # type
    THEN [k |-> "return", ret |-> -1, v |-> "bad_write_retry",
          ws |-> SSLfatal(s, SSL_AD_INTERNAL_ERROR, "SSL_R_BAD_WRITE_RETRY")]
    ELSE [k |-> "pending", ret |-> 0, v |-> "pending",
          ws |-> [s EXCEPT !.pc = "pending", !.arg_type = type,
                           !.tmpwrit = 0]]

\* Mutation: a failed send keeps the bytes in the buffer, as on a stream
Mut_write_pending_step_keeps(s, io) ==
    LET flushing == s.wbio /\ s.ktls /\ s.arg_type # SSL3_RT_APPLICATION_DATA
        s1 == IF s.wbio THEN [s EXCEPT !.rwstate = "SSL_WRITING"]
              ELSE SSLfatal(s, SSL_AD_INTERNAL_ERROR, "SSL_R_BIO_NOT_SET")
        i == IF s.wbio THEN io.write ELSE -1
        tmpwrit == IF s.wbio /\ i >= 0 THEN i ELSE s.tmpwrit
        done(r, v, t, n) == [k |-> "return", ret |-> r, v |-> v, n |-> n,
                             ws |-> [t EXCEPT !.pc = "idle"]]
    IN  IF flushing /\ io.flush <= 0
        THEN done(io.flush, "flush_failed", s1, 0)
        ELSE IF i >= 0 /\ tmpwrit = s1.wbuf.left
        THEN done(1, "sent",
                  [s1 EXCEPT !.wbuf.left = 0,
                             !.wbuf.offset = s1.wbuf.offset + tmpwrit,
                             !.rwstate = "SSL_NOTHING", !.tmpwrit = tmpwrit],
                  tmpwrit)
        ELSE IF i <= 0
        THEN done(i, "dropped", [s1 EXCEPT !.tmpwrit = tmpwrit], 0)
        ELSE [k |-> "pending", ret |-> 0, v |-> "partial", n |-> tmpwrit,
              ws |-> [s1 EXCEPT !.wbuf.offset = s1.wbuf.offset + tmpwrit,
                                !.wbuf.left = s1.wbuf.left - tmpwrit,
                                !.tmpwrit = tmpwrit]]

\* ssl3_write_pending, lines 720-771: one turn of the send loop.  io holds
\* the answers of the transport: flush of BIO_flush, write of BIO_write.
\* result [k, ret, v, n, ws], n the bytes the transport took
ssl3_write_pending_step(s, io) ==
    LET flushing == s.wbio /\ s.ktls /\ s.arg_type # SSL3_RT_APPLICATION_DATA
        s1 == IF s.wbio THEN [s EXCEPT !.rwstate = "SSL_WRITING"]
              ELSE SSLfatal(s, SSL_AD_INTERNAL_ERROR, "SSL_R_BIO_NOT_SET")
        i == IF s.wbio THEN io.write ELSE -1
        tmpwrit == IF s.wbio /\ i >= 0 THEN i ELSE s.tmpwrit
        done(r, v, t, n) == [k |-> "return", ret |-> r, v |-> v, n |-> n,
                             ws |-> [t EXCEPT !.pc = "idle"]]
    IN  IF flushing /\ io.flush <= 0
        THEN done(io.flush, "flush_failed", s1, 0)
        ELSE IF i >= 0 /\ tmpwrit = s1.wbuf.left
        THEN done(1, "sent",
                  [s1 EXCEPT !.wbuf.left = 0,
                             !.wbuf.offset = s1.wbuf.offset + tmpwrit,
                             !.rwstate = "SSL_NOTHING", !.tmpwrit = tmpwrit],
                  tmpwrit)
        ELSE IF i <= 0
        THEN done(i, "dropped",
                  [s1 EXCEPT !.wbuf.left = IF s1.is_dtls THEN 0
                                           ELSE s1.wbuf.left,
                             !.tmpwrit = tmpwrit],
                  0)
        ELSE [k |-> "pending", ret |-> 0, v |-> "partial", n |-> tmpwrit,
              ws |-> [s1 EXCEPT !.wbuf.offset = s1.wbuf.offset + tmpwrit,
                                !.wbuf.left = s1.wbuf.left - tmpwrit,
                                !.tmpwrit = tmpwrit]]

\* lines 833-852: the length of the explicit IV; -1 when the cipher answers
\* a negative IV length
ExplicitIvLen(s) ==
    IF ~s.enc_write_ctx THEN 0
    ELSE IF s.cipher_mode = "cbc"
    THEN IF s.iv_length < 0 THEN -1
         ELSE IF s.iv_length <= 1 THEN 0 ELSE s.iv_length
    ELSE IF s.cipher_mode = "gcm" THEN EVP_GCM_TLS_EXPLICIT_IV_LEN
    ELSE IF s.cipher_mode = "ccm" THEN EVP_CCM_TLS_EXPLICIT_IV_LEN
    ELSE 0

\* lines 914-952 of dtls_write_records: the header is completed, the counter
\* moves on, the buffer and the retry arguments are set up and
\* ssl3_write_pending is entered.  length is the length of the record body.
WriteTail(s, templ, length) ==
    LET hdr == [s.wbuf.hdr EXCEPT !.epoch = s.w_epoch,
                                  !.seq = SubSeq(s.write_sequence, 3, 8),
                                  !.length = length % Limb]
        s1 == [s EXCEPT !.wbuf.hdr = hdr,
                        !.write_sequence =
                            ssl3_record_sequence_update(s.write_sequence),
                        !.wbuf.left = length + DTLS1_RT_HEADER_LENGTH,
                        !.wbuf.offset = 0,
                        !.wpend_tot = templ.buflen,
                        !.wpend_buf = templ.buf,
                        !.wpend_type = templ.type,
                        !.wpend_ret = templ.buflen]
    IN  ssl3_write_pending_enter(s1, templ.type, templ.buf, templ.buflen)

\* Mutation: the number of templates is not looked at
Mut_write_records_any_numtempl(s, templ, numtempl, e) ==
    LET clear == ~s.sess \/ ~s.enc_write_ctx \/ ~s.write_md
        mac_size == IF clear THEN 0 ELSE s.hash_size
        fail(t, v, reason) ==
            [k |-> "return", ret |-> -1, v |-> v,
             ws |-> SSLfatal(t, SSL_AD_INTERNAL_ERROR, reason)]
        s1 == [s EXCEPT !.wbuf.allocated = TRUE,
                        !.wbuf.hdr.type = templ.type % 256,
                        !.wbuf.hdr.version = templ.version]
        eivlen == ExplicitIvLen(s1)
        len1 == IF s1.compress THEN templ.buflen - e.shrink ELSE templ.buflen
        mte == ~s1.etm /\ mac_size # 0
        len2 == (IF mte THEN len1 + mac_size ELSE len1) + eivlen
        etm == s1.etm /\ mac_size # 0
        len3 == IF etm THEN len2 + mac_size ELSE len2
    IN  IF mac_size < 0
        THEN fail(s, "mac_size", "SSL_R_EXCEEDS_MAX_FRAGMENT_SIZE")
        ELSE IF ~e.alloc_ok
        THEN fail(s, "alloc", "ERR_R_INTERNAL_ERROR")
        ELSE IF eivlen < 0 THEN fail(s1, "eivlen", "SSL_R_LIBRARY_BUG")
        ELSE IF s1.compress /\ ~e.compress_ok
        THEN fail(s1, "compress", "SSL_R_COMPRESSION_FAILURE")
        ELSE IF mte /\ ~e.mac_ok
        THEN fail(s1, "mte_mac", "ERR_R_INTERNAL_ERROR")
        ELSE IF ~e.enc_ok THEN fail(s1, "enc", "ERR_R_INTERNAL_ERROR")
        ELSE IF etm /\ ~e.mac_ok
        THEN fail(s1, "etm_mac", "ERR_R_INTERNAL_ERROR")
        ELSE WriteTail(s1, templ, len3)

\* dtls_write_records up to the entry of the send loop.  e holds the
\* answers of the collaborators: alloc_ok of allocate_write_buffers,
\* compress_ok and shrink of ssl3_do_compress, mac_ok of ssl3_enc->mac,
\* enc_ok of ssl3_enc->enc.  result [k, ret, v, ws]
dtls_write_records(s, templ, numtempl, e) ==
    LET clear == ~s.sess \/ ~s.enc_write_ctx \/ ~s.write_md
        mac_size == IF clear THEN 0 ELSE s.hash_size
        fail(t, v, reason) ==
            [k |-> "return", ret |-> -1, v |-> v,
             ws |-> SSLfatal(t, SSL_AD_INTERNAL_ERROR, reason)]
        s1 == [s EXCEPT !.wbuf.allocated = TRUE,
                        !.wbuf.hdr.type = templ.type % 256,
                        !.wbuf.hdr.version = templ.version]
        eivlen == ExplicitIvLen(s1)
        len1 == IF s1.compress THEN templ.buflen - e.shrink ELSE templ.buflen
        mte == ~s1.etm /\ mac_size # 0
        len2 == (IF mte THEN len1 + mac_size ELSE len1) + eivlen
        etm == s1.etm /\ mac_size # 0
        len3 == IF etm THEN len2 + mac_size ELSE len2
    IN  IF mac_size < 0
        THEN fail(s, "mac_size", "SSL_R_EXCEEDS_MAX_FRAGMENT_SIZE")
        ELSE IF numtempl # 1
        THEN fail(s, "numtempl", "ERR_R_INTERNAL_ERROR")
        ELSE IF ~e.alloc_ok
        THEN fail(s, "alloc", "ERR_R_INTERNAL_ERROR")
        ELSE IF eivlen < 0 THEN fail(s1, "eivlen", "SSL_R_LIBRARY_BUG")
        ELSE IF s1.compress /\ ~e.compress_ok
        THEN fail(s1, "compress", "SSL_R_COMPRESSION_FAILURE")
        ELSE IF mte /\ ~e.mac_ok
        THEN fail(s1, "mte_mac", "ERR_R_INTERNAL_ERROR")
        ELSE IF ~e.enc_ok THEN fail(s1, "enc", "ERR_R_INTERNAL_ERROR")
        ELSE IF etm /\ ~e.mac_ok
        THEN fail(s1, "etm_mac", "ERR_R_INTERNAL_ERROR")
        ELSE WriteTail(s1, templ, len3)

\* the write side of a connection: cfg holds what was negotiated, seq the
\* write sequence counter
NewWrite(cfg, seq) ==
    [write_sequence |-> seq, w_epoch |-> cfg.w_epoch,
     sess |-> cfg.sess, enc_write_ctx |-> cfg.enc_write_ctx,
     write_md |-> cfg.write_md, hash_size |-> cfg.hash_size,
     etm |-> cfg.etm, compress |-> cfg.compress,
     cipher_mode |-> cfg.cipher_mode, iv_length |-> cfg.iv_length,
     moving |-> cfg.moving, wbio |-> cfg.wbio, ktls |-> cfg.ktls,
     is_dtls |-> TRUE,
     wbuf |-> [allocated |-> FALSE, hdr |-> NoHeader, offset |-> 0,
               left |-> 0],
     wpend_tot |-> 0, wpend_buf |-> NULL, wpend_type |-> 0, wpend_ret |-> 0,
     alert |-> SSL_AD_NO_ALERT, reason |-> "none",
     rwstate |-> "SSL_NOTHING",
     pc |-> "idle", arg_type |-> 0, tmpwrit |-> 0]

-----------------------------------------------------------------------------
(* The environment.  feed names what the peer (or an attacker) puts on the   *)
(* wire and what the collaborators answer; each feed comes with the layer    *)
(* configurations it is run against.                                         *)
(*   "replay"  records of the current epoch, many sequence numbers           *)
(*   "parse"   all versions, lengths, partial headers, short bodies          *)
(*   "route"   all types and epochs, in_init changes, allocation failures    *)
(*   "crypto"  all answers of cipher, MAC and compression                    *)
(*   "flood"   next-epoch handshake records in sequence order, repeated and  *)
(*             far-ahead ones, enough of them to fill the queue              *)
(*   "migrate" datagrams that hold several handshake records of the current  *)
(*             and the next epoch                                            *)

Base == [epoch |-> 3, version |-> DTLS1_2_VERSION, is_first_record |-> FALSE,
         use_etm |-> FALSE, md_ctx |-> TRUE, md |-> TRUE, mac_size |-> 32,
         enc_ctx |-> TRUE, compctx |-> FALSE,
         max_frag_len |-> SSL3_RT_MAX_PLAIN_LENGTH, sctp |-> FALSE]

Configs(f) ==
    CASE f = "replay" -> {Base, [Base EXCEPT !.sctp = TRUE]}
      [] f = "parse" ->
            {[Base EXCEPT !.version = v, !.is_first_record = first] :
                 v \in {DTLS1_2_VERSION, DTLS1_VERSION, DTLS_ANY_VERSION},
                 first \in BOOLEAN}
            \cup {[Base EXCEPT !.max_frag_len = 512]}
      [] f = "crypto" ->
            {[Base EXCEPT !.use_etm = etm, !.compctx = comp] :
                 etm \in BOOLEAN, comp \in BOOLEAN}
            \cup {[Base EXCEPT !.md_ctx = FALSE, !.md = FALSE],
                  [Base EXCEPT !.md_ctx = FALSE, !.md = FALSE,
                               !.enc_ctx = FALSE],
                  [Base EXCEPT !.use_etm = TRUE, !.md = FALSE]}
      [] f \in {"route", "flood", "migrate", "window"} -> {Base}

Feeds == {"replay", "parse", "route", "crypto", "flood", "migrate", "window"}

FarSeq8 == << 0, 0 >> \o MaxSeq6

FTypes(f) ==
    CASE f = "parse" -> {SSL3_RT_ALERT, SSL3_RT_HANDSHAKE, SSL3_RT_APPLICATION_DATA}
      [] f = "route" -> {SSL3_RT_CHANGE_CIPHER_SPEC, SSL3_RT_ALERT,
                         SSL3_RT_HANDSHAKE, SSL3_RT_APPLICATION_DATA}
      [] f \in {"flood", "migrate"} -> {SSL3_RT_HANDSHAKE}
      [] OTHER -> {SSL3_RT_APPLICATION_DATA}

\* <<major, minor>>: DTLS 1.2, DTLS 1.0, TLS 1.2
FVersions(f) ==
    IF f = "parse" THEN {<<254, 253>>, <<254, 255>>, <<3, 3>>}
    ELSE {<<254, 253>>}

FEpochs(f, r) ==
    LET offs == CASE f = "route" -> {-1, 0, 1, 2}
                  [] f = "flood" -> {1}
                  [] f = "migrate" -> {0, 1}
                  [] OTHER -> {0}
    IN  {r.epoch + o : o \in offs} \cap 0..(Limb - 1)

FSeqs(f, r) ==
    CASE f = "replay" ->
            IF r.sctp THEN {B6(0), B6(5), B6(65)}
            ELSE {B6(0), B6(2), B6(5), B6(64), B6(65), MaxSeq6}
      [] f = "flood" ->
            LET q == r.unprocessed_rcds.q
                k == Cardinality({i \in 1..Len(q) : q[i].priority # FarSeq8})
            IN  {B6(k), B6(0), MaxSeq6}
      [] f \in {"parse", "route"} -> {B6(0)}
      [] f = "window" -> {B6(1), B6(2), B6(64), B6(65)}
      [] OTHER -> {B6(0), B6(1)}

FLengths(f) ==
    CASE f = "parse" -> {0, 100, 832, 833, 17729}
      [] f = "crypto" -> {16, 100, 16500, 17728}
      [] OTHER -> {100}

FFull(f) == IF f = "parse" THEN BOOLEAN ELSE {TRUE}
FBody(f) ==
    IF f = "parse" THEN {"ok", "short", "retry", "err", "fatal"} ELSE {"ok"}
FChunks(f) == IF f = "migrate" THEN MaxChunks ELSE 1
FReadErr(f) ==
    IF f = "parse" THEN {OSSL_RECORD_RETURN_RETRY, OSSL_RECORD_RETURN_FATAL}
    ELSE {OSSL_RECORD_RETURN_RETRY}

COk == [imac_ok |-> TRUE, etm_mac_ok |-> TRUE, cipher |-> "ok", strip |-> 0,
        mte_mac_ok |-> TRUE, uncompress_ok |-> TRUE, grow |-> 0]

FCrypto(f, r) ==
    CASE f = "crypto" ->
            {[imac_ok |-> TRUE, etm_mac_ok |-> e, cipher |-> ci, strip |-> st,
              mte_mac_ok |-> m, uncompress_ok |-> u, grow |-> g] :
                 e \in IF r.use_etm /\ r.md_ctx THEN BOOLEAN ELSE {TRUE},
                 ci \in {"ok", "fail", "fatal"},
                 st \in {0, 32},
                 m \in IF ~r.use_etm /\ r.enc_ctx /\ r.md_ctx /\ r.md
                       THEN BOOLEAN ELSE {TRUE},
                 u \in IF r.compctx THEN BOOLEAN ELSE {TRUE},
                 g \in IF r.compctx THEN {0, 20000} ELSE {0}}
            \cup (IF r.md_ctx /\ r.md THEN {[COk EXCEPT !.imac_ok = FALSE]}
                  ELSE {})
      [] f = "replay" -> {COk, [COk EXCEPT !.cipher = "fail"]}
      [] OTHER -> {COk}

AOk == [alloc_ok |-> TRUE, setup_ok |-> TRUE]

FAlloc(f) ==
    CASE f = "route" -> {AOk, [AOk EXCEPT !.alloc_ok = FALSE],
                         [AOk EXCEPT !.setup_ok = FALSE]}
      [] f = "flood" -> {AOk, [AOk EXCEPT !.alloc_ok = FALSE]}
      [] OTHER -> {AOk}

FSetup(f) == IF f = "route" THEN BOOLEAN ELSE {TRUE}
FToggle(f) == f \in {"route", "flood"}

NoLast == [v |-> "none", hdr |-> NoPacket, body |-> "none", c |-> COk,
           a |-> AOk]

-----------------------------------------------------------------------------
(* The environment of the write path: the negotiated parameters, the value  *)
(* the write sequence counter has reached, the templates the caller hands   *)
(* in, and the answers of the collaborators and of the transport.           *)

WBase == [w_epoch |-> 1, sess |-> TRUE, enc_write_ctx |-> TRUE,
          write_md |-> TRUE, hash_size |-> 32, etm |-> FALSE,
          compress |-> FALSE, cipher_mode |-> "cbc", iv_length |-> 16,
          moving |-> FALSE, wbio |-> TRUE, ktls |-> FALSE]

WConfigs ==
    {WBase,
     [WBase EXCEPT !.etm = TRUE],
     [WBase EXCEPT !.enc_write_ctx = FALSE],
     [WBase EXCEPT !.hash_size = -1],
     [WBase EXCEPT !.compress = TRUE],
     [WBase EXCEPT !.cipher_mode = "gcm"],
     [WBase EXCEPT !.iv_length = -1],
     [WBase EXCEPT !.iv_length = 1],
     [WBase EXCEPT !.wbio = FALSE],
     [WBase EXCEPT !.ktls = TRUE],
     [WBase EXCEPT !.moving = TRUE]}

\* 0, 255 (carry out of the last byte), 2^48 - 2 and 2^48 - 1 (the last
\* values of the 48-bit field of the header)
WCounters ==
    {ZeroSeq8,
     << 0, 0, 0, 0, 0, 0, 0, 255 >>,
     << 0, 0, 255, 255, 255, 255, 255, 254 >>,
     << 0, 0, 255, 255, 255, 255, 255, 255 >>}

WTemplates ==
    {[type |-> t, version |-> DTLS1_2_VERSION, buf |-> "b1", buflen |-> 100] :
         t \in {SSL3_RT_HANDSHAKE, SSL3_RT_APPLICATION_DATA}}

WNumTempl == {0, 1, 2}

WOk == [alloc_ok |-> TRUE, compress_ok |-> TRUE, shrink |-> 0,
        mac_ok |-> TRUE, enc_ok |-> TRUE]

WAnswers(s) ==
    {WOk, [WOk EXCEPT !.alloc_ok = FALSE], [WOk EXCEPT !.mac_ok = FALSE],
     [WOk EXCEPT !.enc_ok = FALSE]}
    \cup (IF s.compress
          THEN {[WOk EXCEPT !.compress_ok = FALSE], [WOk EXCEPT !.shrink = 10]}
          ELSE {})

NoIo == [flush |-> 1, write |-> 0]

\* the transport takes all the bytes left, none, fails, or (for at most
\* MaxPieces - 1 turns per record) takes the 13 bytes of a header only
WIo(s) ==
    IF ~s.wbio THEN {NoIo}
    ELSE {[flush |-> 1, write |-> w] :
              w \in {-1, 0, s.wbuf.left}
                    \cup (IF /\ s.wbuf.left > DTLS1_RT_HEADER_LENGTH
                             /\ s.wbuf.offset
                                  < (MaxPieces - 1) * DTLS1_RT_HEADER_LENGTH
                          THEN {DTLS1_RT_HEADER_LENGTH} ELSE {})}
         \cup (IF s.ktls /\ s.arg_type # SSL3_RT_APPLICATION_DATA
               THEN {[flush |-> f, write |-> 0] : f \in {0, -1}}
               ELSE {})

NoWrite == [op |-> "none", v |-> "none", ret |-> 0, numtempl |-> 0,
            type |-> 0, buf |-> NULL, len |-> 0, seq |-> ZeroSeq8,
            io |-> NoIo, calls |-> 0]

\* the inputs of satsub64be under test: 0, 1, 127, 128, 129, 255, 256,
\* 2^63 - 1, 2^63, 2^63 + 1, 2^63 + 128, 2^63 + 129, 2^64 - 129,
\* 2^64 - 128, 2^64 - 1
SatInputs ==
    {ZeroSeq8,
     << 0, 0, 0, 0, 0, 0, 0, 1 >>,
     << 0, 0, 0, 0, 0, 0, 0, 127 >>,
     << 0, 0, 0, 0, 0, 0, 0, 128 >>,
     << 0, 0, 0, 0, 0, 0, 0, 129 >>,
     << 0, 0, 0, 0, 0, 0, 0, 255 >>,
     << 0, 0, 0, 0, 0, 0, 1, 0 >>,
     << 127, 255, 255, 255, 255, 255, 255, 255 >>,
     << 128, 0, 0, 0, 0, 0, 0, 0 >>,
     << 128, 0, 0, 0, 0, 0, 0, 1 >>,
     << 128, 0, 0, 0, 0, 0, 0, 128 >>,
     << 128, 0, 0, 0, 0, 0, 0, 129 >>,
     << 255, 255, 255, 255, 255, 255, 255, 127 >>,
     << 255, 255, 255, 255, 255, 255, 255, 128 >>,
     << 255, 255, 255, 255, 255, 255, 255, 255 >>}

NoProbe == [v1 |-> ZeroSeq8, v2 |-> ZeroSeq8, ret |-> 0, done |-> FALSE]


-----------------------------------------------------------------------------
(* State:                                                                    *)
(*   rl    the record layer                                                  *)
(*   pc    "idle" between calls, "again" inside dtls_get_more_records at the *)
(*         label again, "freed" after dtls_free                              *)
(*   ret   the value the last call returned                                  *)
(*   wire  datagrams waiting in the transport                                *)
(*   sink  the writes made to rl->next, in order                             *)
(*   last  the last pass through the read loop: the place it ended (v), the  *)
(*         header it parsed and the answers it was given (body: what read_n  *)
(*         answered for the body, "none" when it was not called)             *)
(*   feed  the environment                                                   *)
(*   delivered  history: the sequence numbers (rl->sequence) of the records  *)
(*         that dtls_get_more_records has read from the wire and delivered   *)

Init ==
    /\ feed \in Feeds
    /\ \E cfg \in Configs(feed) : rl = dtls_new_record_layer(cfg)
    /\ pc = "idle"
    /\ ret = OSSL_RECORD_RETURN_RETRY
    /\ wire = 0
    /\ sink = << >>
    /\ last = NoLast
    /\ delivered = {}
    /\ ws = NewWrite(WBase, ZeroSeq8)
    /\ sent = << >>
    /\ wlast = NoWrite
    /\ probe = NoProbe

\* a datagram arrives at the transport
Inject ==
    /\ pc = "idle"
    /\ wire < MaxWire
    /\ wire' = wire + 1
    /\ UNCHANGED <<rl, pc, ret, sink, last, feed, delivered, wvars, probe>>

SetInInit ==
    /\ pc = "idle"
    /\ FToggle(feed)
    /\ \E in_init \in {0, 1} : rl' = dtls_set_in_init(rl, in_init)
    /\ UNCHANGED <<pc, ret, wire, sink, last, feed, delivered, wvars, probe>>

\* lines 391-402: entry of dtls_get_more_records.  The caller stops driving
\* a layer that has raised a fatal alert.
Enter ==
    /\ pc = "idle"
    /\ rl.alert = SSL_AD_NO_ALERT
    /\ \E setup_ok \in FSetup(feed) :
         LET r0 == [rl EXCEPT !.num_recs = 0]
         IN  IF r0.rbuf_buf \/ setup_ok
             THEN /\ rl' = [r0 EXCEPT !.rbuf_buf = TRUE]
                  /\ pc' = "again"
                  /\ ret' = ret
             ELSE /\ rl' = RLAYERfatal(r0, SSL_AD_INTERNAL_ERROR)
                  /\ pc' = "idle"
                  /\ ret' = OSSL_RECORD_RETURN_FATAL
    /\ last' = NoLast
    /\ UNCHANGED <<wire, sink, feed, delivered, wvars, probe>>

Finish(o, hdr, b, c, a, w) ==
    /\ rl' = o.rl
    /\ pc' = IF o.k = "return" THEN "idle" ELSE "again"
    /\ ret' = IF o.k = "return" THEN o.ret ELSE ret
    /\ wire' = w
    /\ last' = [v |-> o.v, hdr |-> hdr, body |-> b, c |-> c, a |-> a]
    /\ delivered' = IF o.v = "delivered"
                    THEN delivered \cup {o.rl.sequence} ELSE delivered
    /\ UNCHANGED <<sink, feed, wvars, probe>>

AfterRoute(r, hdr, b, w) ==
    LET o == Route(r)
    IN  IF o.k = "again" THEN Finish(o, hdr, b, COk, AOk, w)
        ELSE IF o.k = "next_epoch"
        THEN \E a \in FAlloc(feed) : Finish(NextEpoch(o.rl, a), hdr, b, COk, a, w)
        ELSE \E c \in FCrypto(feed, o.rl) :
                 Finish(Process(o.rl, o.bitmap, c), hdr, b, c, AOk, w)

AfterHeader(r, hdr, w) ==
    IF NeedBody(r)
    THEN \E b \in FBody(feed) :
             LET o == ReadBody(r, b)
             IN  IF o.k = "route" THEN AfterRoute(o.rl, hdr, b, w)
                 ELSE Finish(o, hdr, b, COk, AOk, w)
    ELSE AfterRoute(r, hdr, "none", w)

\* Mutation: the header is read without taking the datagram, or the bytes
\* left in the read buffer, off the input
Mut_HeaderRead_peeks(r, left, w) ==
    \E full \in FFull(feed) :
        IF ~full
        THEN Finish([k |-> "again", ret |-> 0, v |-> "partial",
                     rl |-> [r EXCEPT !.rbuf_left = r.rbuf_left, !.packet = NoPacket,
                                      !.packet_length = 0]],
                    NoPacket, "none", COk, AOk, wire)
        ELSE \E t \in FTypes(feed), ver \in FVersions(feed),
                e \in FEpochs(feed, r), sq \in FSeqs(feed, r),
                len \in FLengths(feed) :
               LET hdr == [type |-> t, major |-> ver[1], minor |-> ver[2],
                           epoch |-> e, seq |-> sq, length |-> len]
                   r0 == [r EXCEPT !.rbuf_left = r.rbuf_left, !.packet = hdr,
                                   !.packet_length = DTLS1_RT_HEADER_LENGTH]
                   o == ParseHeader(r0, hdr)
               IN  IF o.k = "again" THEN Finish(o, hdr, "none", COk, AOk, wire)
                   ELSE AfterHeader(o.rl, hdr, wire)

\* read_n(rl, DTLS1_RT_HEADER_LENGTH, ..., 0, 1, &n) succeeded: the packet
\* starts afresh with the n bytes read; left chunks stay in the read buffer
HeaderRead(r, left, w) ==
    \E full \in FFull(feed) :
        IF ~full
        THEN Finish([k |-> "again", ret |-> 0, v |-> "partial",
                     rl |-> [r EXCEPT !.rbuf_left = left, !.packet = NoPacket,
                                      !.packet_length = 0]],
                    NoPacket, "none", COk, AOk, w)
        ELSE \E t \in FTypes(feed), ver \in FVersions(feed),
                e \in FEpochs(feed, r), sq \in FSeqs(feed, r),
                len \in FLengths(feed) :
               LET hdr == [type |-> t, major |-> ver[1], minor |-> ver[2],
                           epoch |-> e, seq |-> sq, length |-> len]
                   r0 == [r EXCEPT !.rbuf_left = left, !.packet = hdr,
                                   !.packet_length = DTLS1_RT_HEADER_LENGTH]
                   o == ParseHeader(r0, hdr)
               IN  IF o.k = "again" THEN Finish(o, hdr, "none", COk, AOk, w)
                   ELSE AfterHeader(o.rl, hdr, w)

\* one pass of dtls_get_more_records from the label again (lines 404-575)
Again ==
    /\ pc = "again"
    /\ LET pr == dtls_retrieve_rlayer_buffered_record(rl, "processed_rcds")
       IN  IF pr.ret = 1
           THEN Finish([k |-> "return", ret |-> OSSL_RECORD_RETURN_SUCCESS,
                        rl |-> [pr.rl EXCEPT !.num_recs = 1], v |-> "processed"],
                       NoPacket, "none", COk, AOk, wire)
           ELSE IF rl.rstate # SSL_ST_READ_BODY
                   \/ rl.packet_length < DTLS1_RT_HEADER_LENGTH
           THEN IF rl.rbuf_left > 0
                THEN HeaderRead(rl, rl.rbuf_left - 1, wire)
                ELSE IF wire > 0
                THEN \E chunks \in 1..FChunks(feed) :
                         HeaderRead(rl, chunks - 1, wire - 1)
                ELSE \E e \in FReadErr(feed) :
                         Finish([k |-> "return", ret |-> e, v |-> "read_error",
                                 rl |-> IF e = OSSL_RECORD_RETURN_FATAL
                                        THEN RLAYERfatal(rl, SSL_AD_INTERNAL_ERROR)
                                        ELSE rl],
                                NoPacket, "none", COk, AOk, wire)
           ELSE AfterHeader(rl, rl.packet, wire)

Free ==
    /\ pc = "idle"
    /\ LET f == dtls_free(rl)
       IN  /\ rl' = f.rl
           /\ sink' = sink \o f.writes
    /\ pc' = "freed"
    /\ UNCHANGED <<ret, wire, last, feed, delivered, wvars, probe>>

Next == Inject \/ SetInInit \/ Enter \/ Again \/ Free

Spec == Init /\ [][Next]_vars


-----------------------------------------------------------------------------
(* The read path started with records waiting in the processed queue: the   *)
(* records that were decrypted and then withheld from delivery.  Nothing in *)
(* this file puts a record there; the queue is filled as                    *)
(* dtls_rlayer_buffer_record fills the unprocessed one, with the packet,    *)
(* the record and the sequence number as priority.                          *)

\* the sequence numbers of the records withheld
ProcessedSeqs == {B6(7), B6(9), B6(11)}

ProcessedItem(r, sq) ==
    [priority |-> << 0, 0 >> \o sq,
     data |-> [packet |-> [type |-> SSL3_RT_APPLICATION_DATA,
                           major |-> DTLS1_VERSION_MAJOR, minor |-> 253,
                           epoch |-> r.epoch, seq |-> sq, length |-> 100],
               packet_length |-> DTLS1_RT_HEADER_LENGTH + 100,
               rbuf_buf |-> TRUE, rbuf_left |-> 0,
               rrec |-> [type |-> SSL3_RT_APPLICATION_DATA, epoch |-> r.epoch,
                         length |-> 68, seq_num |-> << 0, 0 >> \o sq]]]

RECURSIVE QueueOf(_, _)
QueueOf(r, seqs) ==
    IF seqs = {} THEN << >>
    ELSE LET sq == CHOOSE x \in seqs : TRUE
         IN  pqueue_insert(QueueOf(r, seqs \ {sq}), ProcessedItem(r, sq)).q

InitDrain ==
    /\ feed = "window"
    /\ \E seqs \in SUBSET ProcessedSeqs :
         /\ Cardinality(seqs) <= MaxProcessed
         /\ rl = [dtls_new_record_layer(Base) EXCEPT
                      !.processed_rcds.q = QueueOf(dtls_new_record_layer(Base),
                                                   seqs)]
    /\ pc = "idle"
    /\ ret = OSSL_RECORD_RETURN_RETRY
    /\ wire = 0
    /\ sink = << >>
    /\ last = NoLast
    /\ delivered = {}
    /\ ws = NewWrite(WBase, ZeroSeq8)
    /\ sent = << >>
    /\ wlast = NoWrite
    /\ probe = NoProbe

NextDrain == Inject \/ Enter \/ Again \/ Free

SpecDrain == InitDrain /\ [][NextDrain]_vars

\* The read path under the scheduling of the code: a call that has reached
\* the label again goes on to run the pass.  This is weak fairness of Again,
\* WF_vars(Again).  Again is enabled exactly when pc = "again", and it is
\* the only action enabled then, so that a step of Again is a step that
\* leaves a state with pc = "again" for another state; FairAgain states the
\* fairness in these terms.  The runs start from a fresh layer or from one
\* with records waiting in the processed queue.
FairAgain == []<>(pc # "again") \/ []<><<pc = "again">>_vars

InitLive == Init \/ InitDrain

SpecLive == InitLive /\ [][Next]_vars /\ FairAgain

-----------------------------------------------------------------------------
(* dtls_process_record and the lines of dtls_get_more_records that act on    *)
(* its result (563-574), applied to a layer that holds a whole record of the *)
(* current epoch which has passed the replay check.  The record has any      *)
(* length the function is written for: up to SSL3_RT_MAX_ENCRYPTED_LENGTH,   *)
(* which it tests itself, and one byte beyond.                               *)

ProcessLengths == {100, 16500, 17420, SSL3_RT_MAX_ENCRYPTED_LENGTH,
                   SSL3_RT_MAX_ENCRYPTED_LENGTH + 1}

InitProcess ==
    /\ feed = "crypto"
    /\ \E cfg \in Configs("crypto"), len \in ProcessLengths :
         LET hdr == [type |-> SSL3_RT_APPLICATION_DATA,
                     major |-> DTLS1_VERSION_MAJOR, minor |-> 253,
                     epoch |-> cfg.epoch, seq |-> B6(5), length |-> len]
             r == dtls_new_record_layer(cfg)
             r0 == [r EXCEPT !.packet = hdr,
                             !.packet_length = DTLS1_RT_HEADER_LENGTH + len,
                             !.rbuf_buf = TRUE,
                             !.rstate = SSL_ST_READ_BODY,
                             !.rrec.type = hdr.type,
                             !.rrec.epoch = hdr.epoch,
                             !.rrec.length = len,
                             !.sequence = SetSeq6(r.sequence, hdr.seq)]
         IN  /\ rl = Route(r0).rl
             /\ last = [NoLast EXCEPT !.v = "routed", !.hdr = hdr, !.body = "ok"]
    /\ pc = "process"
    /\ ret = OSSL_RECORD_RETURN_RETRY
    /\ wire = 0
    /\ sink = << >>
    /\ delivered = {}
    /\ ws = NewWrite(WBase, ZeroSeq8)
    /\ sent = << >>
    /\ wlast = NoWrite
    /\ probe = NoProbe

\* lines 563-574 with the call of dtls_process_record
ProcessRecord ==
    /\ pc = "process"
    /\ \E c \in FCrypto(feed, rl) :
         Finish(Process(rl, dtls_get_bitmap(rl, rl.rrec).bitmap, c),
                rl.packet, "ok", c, AOk, wire)

NextProcess == ProcessRecord

SpecProcess == InitProcess /\ [][NextProcess]_vars

-----------------------------------------------------------------------------
(* The write path as a state machine.  sent lists what the transport took,  *)
(* in order: the header of the record in the buffer, the offset and the     *)
(* number of bytes.  wlast is the last call: the function called (op), its  *)
(* arguments, the counter before the call (seq), the place it ended (v),    *)
(* the value returned (ret), the last answer of the transport (io), and the *)
(* number of calls made so far.                                             *)

ReadSideIdle ==
    /\ feed = "replay"
    /\ rl = dtls_new_record_layer(Base)
    /\ pc = "idle"
    /\ ret = OSSL_RECORD_RETURN_RETRY
    /\ wire = 0
    /\ sink = << >>
    /\ last = NoLast
    /\ delivered = {}

InitWrite ==
    /\ ReadSideIdle
    /\ \E cfg \in WConfigs, seq \in WCounters : ws = NewWrite(cfg, seq)
    /\ sent = << >>
    /\ wlast = NoWrite
    /\ probe = NoProbe

\* a call of dtls_write_records, up to the entry of the send loop.  The
\* caller stops writing on a connection that has raised a fatal alert.
WriteRecords ==
    /\ ws.pc = "idle"
    /\ ws.alert = SSL_AD_NO_ALERT
    /\ wlast.calls < MaxCalls
    /\ \E numtempl \in WNumTempl, templ \in WTemplates, e \in WAnswers(ws) :
         LET o == dtls_write_records(ws, templ, numtempl, e)
         IN  /\ ws' = o.ws
             /\ wlast' = [op |-> "dtls_write_records", v |-> o.v,
                          ret |-> o.ret, numtempl |-> numtempl,
                          type |-> templ.type, buf |-> templ.buf,
                          len |-> templ.buflen, seq |-> ws.write_sequence,
                          io |-> NoIo, calls |-> wlast.calls + 1]
    /\ UNCHANGED <<rvars, sent, probe>>

\* one turn of the send loop of ssl3_write_pending
SendStep ==
    /\ ws.pc = "pending"
    /\ \E io \in WIo(ws) :
         LET o == ssl3_write_pending_step(ws, io)
         IN  /\ ws' = o.ws
             /\ sent' = IF o.n > 0
                        THEN Append(sent, [hdr |-> ws.wbuf.hdr,
                                           offset |-> ws.wbuf.offset,
                                           n |-> o.n])
                        ELSE sent
             /\ wlast' = [wlast EXCEPT !.v = o.v, !.ret = o.ret, !.io = io]
    /\ UNCHANGED <<rvars, probe>>

NextWrite == WriteRecords \/ SendStep

SpecWrite == InitWrite /\ [][NextWrite]_vars

\* ssl3_write_pending called on its own, as a retry of the write memorised
\* in wpend_*, with arguments of the caller's choice
RetryArgs ==
    {[type |-> t, buf |-> b, len |-> n] :
         t \in {SSL3_RT_HANDSHAKE, SSL3_RT_APPLICATION_DATA},
         b \in {"b1", "b2"}, n \in {50, 100, 150}}

WritePending ==
    /\ ws.pc = "idle"
    /\ ws.alert = SSL_AD_NO_ALERT
    /\ ws.wpend_buf # NULL
    /\ wlast.calls < MaxCalls
    /\ \E a \in RetryArgs :
         LET o == ssl3_write_pending_enter(ws, a.type, a.buf, a.len)
         IN  /\ ws' = o.ws
             /\ wlast' = [op |-> "ssl3_write_pending", v |-> o.v,
                          ret |-> o.ret, numtempl |-> 1, type |-> a.type,
                          buf |-> a.buf, len |-> a.len,
                          seq |-> ws.write_sequence, io |-> NoIo,
                          calls |-> wlast.calls + 1]
    /\ UNCHANGED <<rvars, sent, probe>>

NextRetry == WriteRecords \/ SendStep \/ WritePending

SpecRetry == InitWrite /\ [][NextRetry]_vars

-----------------------------------------------------------------------------
(* satsub64be applied to a pair of 64-bit inputs *)

InitSat ==
    /\ ReadSideIdle
    /\ ws = NewWrite(WBase, ZeroSeq8)
    /\ sent = << >>
    /\ wlast = NoWrite
    /\ \E a \in SatInputs, b \in SatInputs :
         probe = [v1 |-> a, v2 |-> b, ret |-> 0, done |-> FALSE]

Subtract ==
    /\ ~probe.done
    /\ probe' = [probe EXCEPT !.ret = satsub64be(probe.v1, probe.v2),
                              !.done = TRUE]
    /\ UNCHANGED <<rvars, wvars>>

NextSat == Subtract

SpecSat == InitSat /\ [][NextSat]_vars

-----------------------------------------------------------------------------
(* The call of dtls_new_record_layer with its failures.  a holds the         *)
(* arguments vers and epoch and the answers of the collaborators: int_ok     *)
(* (tls_int_new_record_layer succeeds), uq_ok and pq_ok (the two calls of    *)
(* pqueue_new return a queue), crypto (what set_crypto_state returns).       *)
(* The result is [ret, retrl, live]: retrl is [null, rl], and live is the    *)
(* set of the objects allocated in the call that are still allocated when    *)
(* it returns.                                                               *)

LayerObject == "rl"
QueueObjects == {"unprocessed_rcds.q", "processed_rcds.q"}

NoLayer == [null |-> TRUE]

\* the versions of the switch at lines 663-677
SupportedVersions ==
    {DTLS_ANY_VERSION, DTLS1_2_VERSION, DTLS1_VERSION, DTLS1_BAD_VER}

\* Mutation: the error exit tears the layer down with dtls_free
Mut_new_record_layer_full_teardown(a) ==
    IF ~a.int_ok
    THEN [ret |-> OSSL_RECORD_RETURN_FATAL, retrl |-> NoLayer, live |-> {}]
    ELSE IF ~a.uq_ok \/ ~a.pq_ok
    THEN [ret |-> OSSL_RECORD_RETURN_FATAL, retrl |-> NoLayer, live |-> {}]
    ELSE LET rv == IF a.vers \notin SupportedVersions
                    THEN OSSL_RECORD_RETURN_FATAL ELSE a.crypto
         IN  IF rv # OSSL_RECORD_RETURN_SUCCESS
             THEN [ret |-> rv, retrl |-> NoLayer, live |-> {}]
             ELSE [ret |-> rv,
                   retrl |-> [null |-> FALSE,
                              rl |-> dtls_new_record_layer(
                                         [Base EXCEPT !.epoch = a.epoch,
                                                      !.version = a.vers])],
                   live |-> {LayerObject} \cup QueueObjects]

dtls_new_record_layer_call(a) ==
    IF ~a.int_ok
    THEN \* lines 644-645: tls_int_new_record_layer leaves *retrl NULL
         [ret |-> OSSL_RECORD_RETURN_FATAL, retrl |-> NoLayer, live |-> {}]
    ELSE IF ~a.uq_ok \/ ~a.pq_ok
    THEN \* lines 649-655: dtls_free releases the queue that was allocated
         \* and, through tls_free, the layer
         [ret |-> OSSL_RECORD_RETURN_FATAL, retrl |-> NoLayer, live |-> {}]
    ELSE LET rv == IF a.vers \notin SupportedVersions
                    THEN OSSL_RECORD_RETURN_FATAL ELSE a.crypto
         IN  IF rv # OSSL_RECORD_RETURN_SUCCESS
             THEN \* lines 683-687: OPENSSL_free(*retrl); *retrl = NULL
                  [ret |-> rv, retrl |-> NoLayer, live |-> QueueObjects]
             ELSE [ret |-> rv,
                   retrl |-> [null |-> FALSE,
                              rl |-> dtls_new_record_layer(
                                         [Base EXCEPT !.epoch = a.epoch,
                                                      !.version = a.vers])],
                   live |-> {LayerObject} \cup QueueObjects]

\* what set_crypto_state returns: success, fatal, or another failure
CryptoAnswers == {OSSL_RECORD_RETURN_SUCCESS, OSSL_RECORD_RETURN_FATAL, -1}

\* the arguments and answers of one call
NewArgs ==
    [vers : SupportedVersions \cup {0, 771}, epoch : {0, 3, Limb - 1},
     int_ok : BOOLEAN, uq_ok : BOOLEAN, pq_ok : BOOLEAN,
     crypto : CryptoAnswers]

NoOutcome == [ret |-> OSSL_RECORD_RETURN_RETRY, retrl |-> NoLayer, live |-> {}]

InitNew ==
    /\ ReadSideIdle
    /\ ws = NewWrite(WBase, ZeroSeq8)
    /\ sent = << >>
    /\ wlast = NoWrite
    /\ \E a \in NewArgs : probe = [a |-> a, out |-> NoOutcome, done |-> FALSE]

NewRecordLayer ==
    /\ ~probe.done
    /\ probe' = [probe EXCEPT !.out = dtls_new_record_layer_call(probe.a),
                              !.done = TRUE]
    /\ UNCHANGED <<rvars, wvars>>

NextNew == NewRecordLayer

SpecNew == InitNew /\ [][NextNew]_vars

-----------------------------------------------------------------------------
(* Vocabulary of the properties *)

\* the 8-byte buffer rl->sequence after a header with sequence field s
Seq8(s) == << 0, 0 >> \o s

\* a < b as 64-bit big-endian numbers
Less8(a, b) ==
    \E i \in 1..8 : a[i] < b[i] /\ \A j \in 1..(i - 1) : a[j] = b[j]

\* the upper and the lower 24 bits of a 48-bit sequence number
Hi24(a) == a[3] * 65536 + a[4] * 256 + a[5]
Lo24(a) == a[6] * 65536 + a[7] * 256 + a[8]

\* for 48-bit s <= m: the distance m - s when below 64, and 64 otherwise
Distance(m, s) ==
    LET dh == Hi24(m) - Hi24(s)
        d == IF dh = 0 THEN Lo24(m) - Lo24(s)
             ELSE IF dh = 1 THEN Lo24(m) - Lo24(s) + 16777216
             ELSE MapBits
    IN  IF d < MapBits THEN d ELSE MapBits

\* places where a pass ends before the record is read whole and routed
ParseEnds == {"none", "processed", "read_error", "partial", "version",
              "major", "too_long", "frag_overflow", "short_body", "body_fatal"}
\* the last pass read a whole record and handed it to dtls_get_bitmap
Routed(v) == v \notin ParseEnds
\* the last pass parsed a record header
Parsed(v) == v \notin {"none", "processed", "read_error", "partial"}
\* places where dtls_process_record was entered
ProcessEnds == {"process_fatal", "process_drop", "delivered"}
\* places where a pass ends with the record dropped and the loop going on
DropEnds == {"partial", "version", "major", "too_long", "frag_overflow",
             "short_body", "no_route", "replay", "zero_length", "queue_full",
             "queue_duplicate", "buffered", "not_in_init", "process_drop"}

-----------------------------------------------------------------------------
\* C1: on a non-SCTP transport, a pass that reads a whole record of the
\* current epoch whose sequence number was delivered before ends at the
\* replay check: nothing is delivered, no alert is raised, the call goes on
\* with the next datagram and both replay windows are as they were.
C1_NoRedelivery ==
    [][ ( /\ pc = "again"
          /\ ~rl.sctp
          /\ Routed(last'.v)
          /\ last'.hdr.epoch = rl.epoch
          /\ Seq8(last'.hdr.seq) \in delivered )
        => ( /\ last'.v = "replay"
             /\ pc' = "again"
             /\ rl'.num_recs = 0
             /\ rl'.alert = SSL_AD_NO_ALERT
             /\ delivered' = delivered
             /\ rl'.bitmap = rl.bitmap
             /\ rl'.next_bitmap = rl.next_bitmap ) ]_vars

\* sequence 5 was delivered and a second datagram with sequence 5 was dropped
C1_Witness ==
    /\ last.v = "replay"
    /\ last.hdr.seq = B6(5)
    /\ Seq8(B6(5)) \in delivered
    /\ Seq8(B6(64)) \in delivered
    /\ ~rl.sctp

\* C2: the current replay window changes only in a pass that delivers the
\* record with success, after the cipher, the MAC of the mode in use,
\* decompression and the max-fragment check have all accepted it; every
\* other step leaves max_seq_num and map as they were.
C2_UpdateOnlyOnDelivery ==
    [][ rl'.bitmap # rl.bitmap
        => ( /\ pc = "again"
             /\ last'.v = "delivered"
             /\ pc' = "idle"
             /\ ret' = OSSL_RECORD_RETURN_SUCCESS
             /\ rl'.num_recs = 1
             /\ rl'.alert = SSL_AD_NO_ALERT
             /\ last'.c.cipher = "ok"
             /\ (rl.use_etm /\ rl.md_ctx => last'.c.etm_mac_ok)
             /\ (~rl.use_etm /\ rl.enc_ctx /\ rl.md_ctx /\ rl.md
                    => last'.c.mte_mac_ok)
             /\ (rl.compctx => last'.c.uncompress_ok)
             /\ rl'.rrec.length <= rl.max_frag_len ) ]_vars

\* a record went through decompression and was delivered, and the window
\* has its bit
C2_Witness ==
    /\ last.v = "delivered"
    /\ rl.compctx
    /\ rl.use_etm
    /\ last.c.strip > 0
    /\ rl.bitmap.map = {0, 1}

\* C3: max_seq_num of either window never decreases; it changes only to the
\* sequence number of the record being committed, and only when that number
\* is strictly greater; the replay check leaves the window as it was.
C3_Step ==
    \A b \in {"bitmap", "next_bitmap"} :
        /\ ~Less8(rl'[b].max_seq_num, rl[b].max_seq_num)
        /\ (rl'[b].max_seq_num # rl[b].max_seq_num
              => /\ rl'[b].max_seq_num = rl'.sequence
                 /\ Less8(rl[b].max_seq_num, rl'.sequence))
        /\ ((pc = "again" /\ last'.v = "replay") => rl'[b] = rl[b])
C3_CheckKeepsWindow ==
    \A b \in {"bitmap", "next_bitmap"}, s \in {B6(0), B6(64), MaxSeq6} :
        dtls_record_replay_check([rl EXCEPT !.sequence = Seq8(s)], b).rl[b]
            = rl[b]
C3_MaxSeqMonotone == [][C3_Step]_vars /\ []C3_CheckKeepsWindow

\* an older record was committed after a newer one: max_seq_num stayed
C3_Witness ==
    /\ last.v = "delivered"
    /\ last.hdr.seq = B6(2)
    /\ rl.bitmap.max_seq_num = Seq8(B6(65))
    /\ rl.bitmap.map = {0, MapBits - 1}

\* C4: the replay check of a whole record read on a non-SCTP transport,
\* against the window w its epoch selects and with s the sequence number of
\* the record: the record passes when s > max_seq_num; it is rejected when
\* max_seq_num - s >= 64; otherwise it is rejected exactly when bit
\* (max_seq_num - s) of the map is set.  The distances met go from 0 up to
\* 2^48 - 1, far beyond the saturation bound of satsub64be.
C4_Step ==
    ( /\ pc = "again"
      /\ ~rl.sctp
      /\ Routed(last'.v)
      /\ last'.v # "no_route" )
    => LET w == IF last'.hdr.epoch = rl.epoch THEN rl.bitmap ELSE rl.next_bitmap
           s == Seq8(last'.hdr.seq)
           d == Distance(w.max_seq_num, s)
           rejected == last'.v = "replay"
       IN  IF Less8(w.max_seq_num, s) THEN ~rejected
           ELSE IF d >= MapBits THEN rejected
           ELSE rejected <=> d \in w.map
C4_Classification == [][C4_Step]_vars

\* after 65 and then 2^48 - 1 were delivered, sequence 0 arrives for the
\* first time: it is 2^48 - 1 behind and is rejected as stale
C4_Witness ==
    /\ last.v = "replay"
    /\ last.hdr.seq = B6(0)
    /\ rl.bitmap.max_seq_num = Seq8(MaxSeq6)
    /\ Seq8(B6(65)) \in delivered
    /\ Seq8(B6(0)) \notin delivered
    /\ ~rl.sctp

\* C5: neither deferred queue ever holds more than 100 items, whatever
\* datagrams arrive and however in_init changes; and a pass that starts with
\* 100 or more items in the unprocessed queue adds none.
C5_Refuses ==
    \A queue \in {"unprocessed_rcds", "processed_rcds"} :
        Len(rl[queue].q) >= QueueLimit => Len(rl'[queue].q) <= Len(rl[queue].q)
C5_WithinLimit ==
    \A queue \in {"unprocessed_rcds", "processed_rcds"} :
        Len(rl[queue].q) <= QueueLimit
C5_QueueCap == []C5_WithinLimit /\ [][C5_Refuses]_vars

\* the queue holds 100 items and a record of the next epoch with a priority
\* not yet queued has just been refused
C5_Witness ==
    /\ Len(rl.unprocessed_rcds.q) = QueueLimit
    /\ last.v = "queue_full"
    /\ rl.in_init = 1
    /\ \A i \in 1..QueueLimit :
           rl.unprocessed_rcds.q[i].priority # Seq8(last.hdr.seq)

\* a pass reads a whole record that is routed to the next epoch, passes the
\* replay check and has a length, while in_init is set
NextEpochArrives ==
    /\ pc = "again"
    /\ rl.in_init = 1
    /\ last'.hdr.epoch = rl.epoch + 1
    /\ Routed(last'.v)
    /\ last'.v \notin {"no_route", "replay", "zero_length"}

\* the call returns fatal
ReturnsFatal == pc' = "idle" /\ ret' = OSSL_RECORD_RETURN_FATAL

\* C6 as stated: a record of the next epoch that arrives while in_init is
\* set and is not enqueued, the queue being full or allocation failing,
\* makes dtls_get_more_records return fatal.
C6_FullOrAllocFatal ==
    [][ ( /\ NextEpochArrives
          /\ \/ Len(rl.unprocessed_rcds.q) >= QueueLimit
             \/ ~last'.a.alloc_ok
             \/ ~last'.a.setup_ok )
        => ReturnsFatal ]_vars

\* C6 amended: with the queue full the record is dropped in silence, the
\* allocator is not called, no alert is raised, the queue is as it was and
\* the call goes on with the next datagram; with room in the queue, a
\* failed allocation makes the call return fatal with internal_error.
C6_Step ==
    NextEpochArrives =>
        IF Len(rl.unprocessed_rcds.q) >= QueueLimit
        THEN /\ pc' = "again"
             /\ ret' = ret
             /\ rl'.alert = SSL_AD_NO_ALERT
             /\ rl'.num_recs = 0
             /\ rl'.unprocessed_rcds = rl.unprocessed_rcds
        ELSE IF ~last'.a.alloc_ok \/ ~last'.a.setup_ok
        THEN /\ ReturnsFatal
             /\ rl'.alert = SSL_AD_INTERNAL_ERROR
             /\ rl'.num_recs = 0
        ELSE /\ pc' = "again"
             /\ rl'.alert = SSL_AD_NO_ALERT
C6_FullDropsAllocFatal == [][C6_Step]_vars

\* a record met the full queue while the allocator would have failed: the
\* call goes on without an alert
C6_Witness ==
    /\ last.v = "queue_full"
    /\ ~last.a.alloc_ok
    /\ pc = "again"
    /\ rl.alert = SSL_AD_NO_ALERT
    /\ Len(rl.unprocessed_rcds.q) = QueueLimit

\* a pass reads a whole record of epoch current + 1 and of type handshake or
\* alert that passes the replay check and has a length
NextEpochRecord ==
    /\ pc = "again"
    /\ last'.hdr.epoch = rl.epoch + 1
    /\ last'.hdr.type \in {SSL3_RT_HANDSHAKE, SSL3_RT_ALERT}
    /\ Routed(last'.v)
    /\ last'.v \notin {"no_route", "replay", "zero_length"}

\* the step adds one item to the unprocessed queue
Inserted == Len(rl'.unprocessed_rcds.q) = Len(rl.unprocessed_rcds.q) + 1

\* every item of the unprocessed queue is of the epoch after the current one
ItemsOfNextEpoch ==
    \A i \in 1..Len(rl.unprocessed_rcds.q) :
        LET d == rl.unprocessed_rcds.q[i].data
        IN  d.rrec.epoch = rl.epoch + 1 /\ d.packet.epoch = rl.epoch + 1

C7_Step ==
    /\ (pc = "again" /\ Inserted) => (NextEpochRecord /\ rl.in_init = 1)
    /\ ( /\ NextEpochRecord
         /\ rl.in_init = 1
         /\ Len(rl.unprocessed_rcds.q) < QueueLimit
         /\ \A i \in 1..Len(rl.unprocessed_rcds.q) :
                rl.unprocessed_rcds.q[i].priority # Seq8(last'.hdr.seq)
         /\ last'.a.alloc_ok
         /\ last'.a.setup_ok )
       => ( /\ Inserted
            /\ \E i \in 1..Len(rl'.unprocessed_rcds.q) :
                  /\ rl'.unprocessed_rcds.q[i].priority = Seq8(last'.hdr.seq)
                  /\ rl'.unprocessed_rcds.q[i].data.packet = last'.hdr )
    /\ NextEpochRecord => (rl'.num_recs = 0 /\ last'.v # "delivered")
    /\ (NextEpochRecord /\ rl.in_init = 0)
       => ( /\ rl'.unprocessed_rcds = rl.unprocessed_rcds
            /\ pc' = "again"
            /\ rl'.alert = SSL_AD_NO_ALERT )
Teardown == pc = "idle" /\ pc' = "freed"

\* (epoch, seq) of packet a is not above that of packet b
NotAbove(a, b) ==
    a.epoch < b.epoch \/ (a.epoch = b.epoch /\ ~Less8(Seq8(b.seq), Seq8(a.seq)))

\* writes from..(from + k - 1) of the sink are the packets of the k items of
\* the unprocessed queue before the step, in the order of the queue, each
\* not above the one that follows it in (epoch, seq)
PacketsWritten(from) ==
    LET q == rl.unprocessed_rcds.q
    IN  /\ \A i \in 1..Len(q) :
              /\ sink'[from + i - 1].from = "packet"
              /\ sink'[from + i - 1].data = q[i].data.packet
              /\ sink'[from + i - 1].len = q[i].data.packet_length
        /\ \A i \in 1..(Len(q) - 1) :
              NotAbove(sink'[from + i - 1].data, sink'[from + i].data)

\* C8 as stated: dtls_free of a layer whose unprocessed queue holds k
\* records makes exactly k writes to rl->next, one per queued record with
\* its packet and packet length, in non-decreasing (epoch, seq) order, and
\* leaves the queue empty.
C8_ExactlyKWrites ==
    [][ Teardown
        => ( /\ Len(sink') = Len(sink) + Len(rl.unprocessed_rcds.q)
             /\ PacketsWritten(Len(sink) + 1)
             /\ rl'.unprocessed_rcds.q = << >> ) ]_vars

\* C8 amended: dtls_free first writes the bytes left in the read buffer to
\* rl->next, in one write, when there are any; then it makes exactly k
\* writes, one per record of the unprocessed queue with its packet and
\* packet length, in non-decreasing (epoch, seq) order.  Afterwards the
\* read buffer holds nothing and both queues are empty.
C8_Step ==
    Teardown =>
        LET pre == IF rl.rbuf_left > 0 THEN 1 ELSE 0
            k == Len(rl.unprocessed_rcds.q)
        IN  /\ k <= QueueLimit
            /\ Len(sink') = Len(sink) + pre + k
            /\ SubSeq(sink', 1, Len(sink)) = sink
            /\ pre = 1 =>
                  /\ sink'[Len(sink) + 1].from = "rbuf"
                  /\ sink'[Len(sink) + 1].len = rl.rbuf_left
            /\ PacketsWritten(Len(sink) + pre + 1)
            /\ rl'.rbuf_left = 0
            /\ rl'.unprocessed_rcds.q = << >>
            /\ rl'.processed_rcds.q = << >>
C8_LeftoverThenKWrites == [][C8_Step]_vars

\* the layer was freed with a record left in the read buffer and two
\* records queued, sequence 1 having arrived before sequence 0: three
\* writes, the leftover first
C8_Witness ==
    /\ pc = "freed"
    /\ Len(sink) = 3
    /\ sink[1].from = "rbuf"
    /\ sink[2].from = "packet" /\ sink[2].data.seq = B6(0)
    /\ sink[3].from = "packet" /\ sink[3].data.seq = B6(1)

\* a pass hands a record to dtls_process_record and the size of the MAC,
\* when one is configured, can be determined
Processed ==
    /\ pc = "again"
    /\ last'.v \in ProcessEnds
    /\ (rl.md_ctx /\ rl.md) => last'.c.imac_ok

\* the replay windows are as they were
WindowsKept == rl'.bitmap = rl.bitmap /\ rl'.next_bitmap = rl.next_bitmap

\* C9: with encrypt-then-MAC and a MAC configured, a record long enough to
\* carry a MAC whose MAC does not match makes dtls_get_more_records return
\* fatal with bad_record_mac.  With MAC-then-encrypt, a record the cipher
\* rejects (without raising an alert of its own) or whose MAC does not match
\* is dropped in silence: no alert, nothing delivered, the call goes on with
\* the next datagram.  Neither touches the replay windows.
C9_Step ==
    /\ ( /\ Processed
         /\ rl.use_etm /\ rl.md_ctx /\ rl.md
         /\ last'.hdr.length >= rl.mac_size
         /\ ~last'.c.etm_mac_ok )
       => ( /\ ReturnsFatal
            /\ rl'.alert = SSL_AD_BAD_RECORD_MAC
            /\ rl'.num_recs = 0
            /\ WindowsKept )
    /\ ( /\ Processed
         /\ ~rl.use_etm
         /\ \/ last'.c.cipher = "fail"
            \/ /\ last'.c.cipher = "ok"
               /\ rl.enc_ctx /\ rl.md_ctx /\ rl.md
               /\ ~last'.c.mte_mac_ok )
       => ( /\ last'.v = "process_drop"
            /\ pc' = "again"
            /\ ret' = ret
            /\ rl'.alert = SSL_AD_NO_ALERT
            /\ rl'.num_recs = 0
            /\ rl'.rrec.length = 0
            /\ rl'.packet_length = 0
            /\ delivered' = delivered
            /\ WindowsKept )
C9_MacFailureByMode == [][C9_Step]_vars

\* an encrypt-then-MAC record that decrypts but whose MAC does not match
\* was read: the call returned fatal with bad_record_mac
C9_Witness ==
    /\ last.v = "process_fatal"
    /\ rl.use_etm /\ rl.md_ctx /\ rl.md
    /\ ~last.c.etm_mac_ok
    /\ last.c.cipher = "ok"
    /\ pc = "idle"
    /\ ret = OSSL_RECORD_RETURN_FATAL
    /\ rl.alert = SSL_AD_BAD_RECORD_MAC

\* a pass reads a record header from the transport
HeaderParsed == pc = "again" /\ Parsed(last'.v)

\* the major version byte the layer is configured for
ConfiguredMajor ==
    IF rl.version = DTLS_ANY_VERSION THEN DTLS1_VERSION_MAJOR
    ELSE (rl.version \div 256) % 256

\* the record is dropped in silence: no alert, nothing delivered, the call
\* goes on with the next datagram, the windows and the queue as they were
SilentDrop ==
    /\ pc' = "again"
    /\ ret' = ret
    /\ rl'.alert = SSL_AD_NO_ALERT
    /\ rl'.num_recs = 0
    /\ rl'.rrec.length = 0
    /\ rl'.packet_length = 0
    /\ delivered' = delivered
    /\ WindowsKept
    /\ rl'.unprocessed_rcds = rl.unprocessed_rcds

\* C10: with is_first_record clear, a record that is no alert and whose
\* 16-bit version differs from the version of the layer is dropped in
\* silence; an alert with the configured major version byte is not dropped
\* by the version tests, whatever its minor version; and every record whose
\* major version byte differs from the configured one (the DTLS1 major when
\* the version is DTLS_ANY_VERSION) is dropped in silence, alerts included.
C10_Step ==
    /\ ( /\ HeaderParsed
         /\ ~rl.is_first_record
         /\ last'.hdr.type # SSL3_RT_ALERT
         /\ last'.hdr.major * 256 + last'.hdr.minor # rl.version )
       => (last'.v = "version" /\ SilentDrop)
    /\ ( /\ HeaderParsed
         /\ last'.hdr.type = SSL3_RT_ALERT
         /\ last'.hdr.major = ConfiguredMajor )
       => last'.v \notin {"version", "major"}
    /\ ( /\ HeaderParsed
         /\ last'.hdr.major # ConfiguredMajor )
       => (last'.v \in {"version", "major"} /\ SilentDrop)
C10_VersionTolerance == [][C10_Step]_vars

\* a layer of DTLS 1.2 past its first record delivered an alert that
\* carries the version of DTLS 1.0
C10_Witness ==
    /\ last.v = "delivered"
    /\ last.hdr.type = SSL3_RT_ALERT
    /\ last.hdr.major * 256 + last.hdr.minor = DTLS1_VERSION
    /\ rl.version = DTLS1_2_VERSION
    /\ ~rl.is_first_record
    /\ rl.num_recs = 1

\* C11: a record whose length field exceeds SSL3_RT_MAX_ENCRYPTED_LENGTH, or
\* exceeds max_frag_len + SSL3_RT_MAX_ENCRYPTED_OVERHEAD, is dropped in
\* silence when its header is parsed: read_n is not called for its body and
\* no alert is raised.  Hence dtls_process_record is never entered with a
\* length above SSL3_RT_MAX_ENCRYPTED_LENGTH.
C11_Step ==
    /\ ( /\ HeaderParsed
         /\ \/ last'.hdr.length > SSL3_RT_MAX_ENCRYPTED_LENGTH
            \/ last'.hdr.length
                   > rl.max_frag_len + SSL3_RT_MAX_ENCRYPTED_OVERHEAD )
       => ( /\ last'.v \in {"version", "major", "too_long", "frag_overflow"}
            /\ last'.body = "none"
            /\ SilentDrop )
    /\ (pc = "again" /\ last'.v \in ProcessEnds)
       => /\ last'.hdr.length <= SSL3_RT_MAX_ENCRYPTED_LENGTH
          /\ last'.hdr.length
                <= rl.max_frag_len + SSL3_RT_MAX_ENCRYPTED_OVERHEAD
C11_LengthDropAtHeader == [][C11_Step]_vars

\* a record of the right version announcing one byte more than
\* SSL3_RT_MAX_ENCRYPTED_LENGTH was dropped before its body was read
C11_Witness ==
    /\ last.v = "too_long"
    /\ last.hdr.length = SSL3_RT_MAX_ENCRYPTED_LENGTH + 1
    /\ last.body = "none"
    /\ pc = "again"
    /\ rl.alert = SSL_AD_NO_ALERT
    /\ rl.packet_length = 0

\* read_n answered retry for the header: nothing was read
HeaderRetry ==
    /\ pc = "again"
    /\ last'.v = "read_error"
    /\ rl'.alert = SSL_AD_NO_ALERT

\* read_n answered retry for the body of the record whose header was parsed
BodyRetry == pc = "again" /\ last'.body = "retry"

\* C12 as stated: a retry of read_n, for the header or for the body, is
\* returned to the caller unchanged, with rstate and the packet read so far
\* kept, so that the next call resumes the same record.
C12_RetryReturnedStateKept ==
    [][ /\ HeaderRetry
           => (pc' = "idle" /\ ret' = OSSL_RECORD_RETURN_RETRY /\ rl' = rl)
        /\ BodyRetry
           => ( /\ pc' = "idle"
                /\ ret' = OSSL_RECORD_RETURN_RETRY
                /\ rl'.rstate = SSL_ST_READ_BODY
                /\ rl'.packet = last'.hdr
                /\ rl'.packet_length = DTLS1_RT_HEADER_LENGTH
                /\ rl'.rrec.length = last'.hdr.length ) ]_vars

\* C12 amended: a retry of the header read is returned to the caller
\* unchanged and the layer is as it was.  A body read that does not bring
\* the whole body (retry, another failure without an alert, or fewer bytes)
\* drops the record: length and packet_length are reset, nothing is
\* returned, and the loop goes on with a fresh header read; the record is
\* not resumed.  A body read that raised an alert makes the call fatal.
C12_Step ==
    /\ HeaderRetry
       => ( /\ pc' = "idle"
            /\ ret' = OSSL_RECORD_RETURN_RETRY
            /\ rl' = rl
            /\ wire' = wire )
    /\ (pc = "again" /\ last'.body \in {"retry", "err", "short"})
       => ( /\ last'.v = "short_body"
            /\ SilentDrop
            /\ rl'.rstate # SSL_ST_READ_BODY
                  \/ rl'.packet_length < DTLS1_RT_HEADER_LENGTH )
    /\ (pc = "again" /\ last'.body = "fatal")
       => (ReturnsFatal /\ rl'.alert # SSL_AD_NO_ALERT)
C12_HeaderRetryKeptBodyRetryDrops == [][C12_Step]_vars

\* the body read of a record answered retry: the record was dropped and the
\* call went on
C12_Witness ==
    /\ last.body = "retry"
    /\ last.v = "short_body"
    /\ pc = "again"
    /\ rl.alert = SSL_AD_NO_ALERT
    /\ rl.packet_length = 0
    /\ rl.rrec.length = 0

\* places where a pass ends with the input discarded in silence: partial
\* header, version mismatch, length out of range, short body, no route,
\* replay, zero length, failed decryption or MAC check
JunkEnds == {"partial", "version", "major", "too_long", "frag_overflow",
             "short_body", "no_route", "replay", "zero_length",
             "process_drop"}

\* the next pass starts with a read of a 13-byte header (line 414)
HeaderReadNext ==
    rl'.rstate # SSL_ST_READ_BODY \/ rl'.packet_length < DTLS1_RT_HEADER_LENGTH

\* C13: a pass of dtls_get_more_records that ends in a silent drop delivers
\* nothing, raises no alert, leaves both replay windows, the epoch of the
\* layer and both deferred queues as they were, returns nothing to the
\* caller, and is followed by a fresh header read.
C13_Step ==
    (pc = "again" /\ last'.v \in JunkEnds)
    => ( /\ pc' = "again"
         /\ ret' = ret
         /\ delivered' = delivered
         /\ rl'.num_recs = 0
         /\ rl'.alert = SSL_AD_NO_ALERT
         /\ WindowsKept
         /\ rl'.epoch = rl.epoch
         /\ rl'.unprocessed_rcds = rl.unprocessed_rcds
         /\ rl'.processed_rcds = rl.processed_rcds
         /\ rl'.in_init = rl.in_init
         /\ sink' = sink
         /\ HeaderReadNext )
C13_SilentDropsKeepState == [][C13_Step]_vars

\* a record with a length of zero was dropped after it passed the replay
\* check: nothing has been delivered and the window is still empty
C13_Witness ==
    /\ last.v = "zero_length"
    /\ pc = "again"
    /\ delivered = {}
    /\ rl.alert = SSL_AD_NO_ALERT
    /\ rl.bitmap.map = {}
    /\ rl.bitmap.max_seq_num = ZeroSeq8
    /\ rl.rstate = SSL_ST_READ_HEADER

\* places where a pass ends after the record was routed to the next window
NextEnds == {"buffer_fatal", "queue_full", "queue_duplicate", "buffered",
             "not_in_init"}

\* the window dtls_get_bitmap hands out for the record of the pass, with
\* backlog the condition on the epoch recorded in the unprocessed queue
RoutedAs(backlog) ==
    LET e == last'.hdr.epoch
        t == last'.hdr.type
        cur == e = rl.epoch
        nxt == /\ e = rl.epoch + 1
               /\ backlog
               /\ t \in {SSL3_RT_HANDSHAKE, SSL3_RT_ALERT}
    IN  /\ last'.v = "no_route" <=> ~(cur \/ nxt)
        /\ cur => last'.v \notin NextEnds
        /\ nxt => last'.v \notin ProcessEnds
        /\ last'.v = "no_route" => SilentDrop

\* C18 as stated: a record of epoch + 1 gets the next window exactly when the
\* epoch recorded in the unprocessed queue equals the epoch of the layer
C18_NextWindowWhenEpochsEqual ==
    [][ (pc = "again" /\ Routed(last'.v))
        => RoutedAs(rl.unprocessed_rcds.epoch = rl.epoch) ]_vars

\* C18: a record of the current epoch is routed to the current window
\* whatever its type; a record of epoch + 1 is routed to the next window
\* exactly when the epoch recorded in the unprocessed queue differs from the
\* epoch of the layer and the type is handshake or alert; every other
\* record gets no window and is dropped in silence.  The constructor
\* records epoch + 1 in the unprocessed queue, so the two epochs differ for
\* as long as the layer lives.
C18_Step == (pc = "again" /\ Routed(last'.v))
            => RoutedAs(rl.unprocessed_rcds.epoch # rl.epoch)
C18_RecordedEpoch == rl.unprocessed_rcds.epoch = rl.epoch + 1
C18_EpochRouter == []C18_RecordedEpoch /\ [][C18_Step]_vars

\* a handshake record of the next epoch was routed to the next window and
\* deferred while the unprocessed queue records epoch + 1
C18_Witness ==
    /\ last.v = "buffered"
    /\ last.hdr.epoch = rl.epoch + 1
    /\ last.hdr.type = SSL3_RT_HANDSHAKE
    /\ rl.unprocessed_rcds.epoch = rl.epoch + 1
    /\ feed = "route"

\* the sequence numbers 1, 2, 64 and 65 as 8-byte numbers
S1 == Seq8(B6(1))
S2 == Seq8(B6(2))
S64 == Seq8(B6(64))
S65 == Seq8(B6(65))

\* bit i of the map of the current window is set exactly when the sequence
\* number max_seq_num - i was marked (the records marked are those delivered)
C19_BitsAreMarked ==
    LET m == rl.bitmap.max_seq_num
    IN  rl.bitmap.map
          = {Distance(m, s) : s \in {t \in delivered : ~Less8(m, t)}}
              \cap 0..(MapBits - 1)

\* what one call of dtls_record_bitmap_update does to the current window,
\* with s the sequence number marked
C19_Update ==
    (pc = "again" /\ last'.v = "delivered")
    => LET s == Seq8(last'.hdr.seq)
           w == rl.bitmap
           d == Distance(s, w.max_seq_num)
       IN  IF Less8(w.max_seq_num, s)
           THEN /\ rl'.bitmap.max_seq_num = s
                /\ rl'.bitmap.map
                     = {0} \cup {i + d : i \in {j \in w.map : j + d < MapBits}}
           ELSE IF Distance(w.max_seq_num, s) < MapBits
           THEN /\ rl'.bitmap.max_seq_num = w.max_seq_num
                /\ rl'.bitmap.map = w.map \cup {Distance(w.max_seq_num, s)}
           ELSE rl'.bitmap = w

\* after 1, 2 and 65 were accepted, 1 is stale, 2 is a duplicate and 64 is
\* fresh
C19_Example ==
    (pc = "again" /\ ~rl.sctp /\ delivered = {S1, S2, S65}
       /\ Routed(last'.v) /\ last'.hdr.epoch = rl.epoch)
    => /\ rl.bitmap.max_seq_num = S65
       /\ rl.bitmap.map = {0, MapBits - 1}
       /\ last'.hdr.seq \in {B6(1), B6(2)} => last'.v = "replay"
       /\ last'.hdr.seq = B6(64) => last'.v \in {"zero_length"} \cup ProcessEnds

\* C19: starting from the empty window, bit i of the map (0 <= i <= 63) is
\* set if and only if sequence number max_seq_num - i was passed to
\* dtls_record_bitmap_update.  An update with a number d > 0 above
\* max_seq_num shifts the map left by d (clearing it when d >= 64), sets
\* bit 0 and moves max_seq_num; an update with a number not above
\* max_seq_num sets the bit of its distance and moves nothing.  After 1, 2
\* and 65 were accepted, 1 is rejected as stale, 2 as a duplicate, and 64 is
\* accepted.
C19_WindowBits == []C19_BitsAreMarked /\ [][C19_Update /\ C19_Example]_vars

\* 1, 2 and 65 were accepted, then 64 was accepted as fresh, and now a
\* datagram with 1 has been rejected: it is 64 behind
C19_Witness ==
    /\ feed = "window"
    /\ delivered = {S1, S2, S64, S65}
    /\ rl.bitmap.max_seq_num = S65
    /\ rl.bitmap.map = {0, 1, MapBits - 1}
    /\ last.v = "replay"
    /\ last.hdr.seq = B6(1)

-----------------------------------------------------------------------------
(* Vocabulary of the properties of the write path *)

\* b = a + 1 for big-endian numbers of n bytes, the carry running to the
\* front; the number of all 255 has no successor
PlusOne(a, b, n) ==
    \E i \in 1..n :
        /\ b[i] = a[i] + 1
        /\ \A j \in (i + 1)..n : (a[j] = 255 /\ b[j] = 0)
        /\ \A k \in 1..(i - 1) : b[k] = a[k]

\* b = a + 1 modulo 256^n
PlusOneMod(a, b, n) ==
    \/ PlusOne(a, b, n)
    \/ \A j \in 1..n : a[j] = 255 /\ b[j] = 0

\* a < b for big-endian numbers of 6 bytes
Less6(a, b) ==
    \E i \in 1..6 : a[i] < b[i] /\ \A j \in 1..(i - 1) : a[j] = b[j]

\* the 48-bit field of the header that goes with the counter c
Low48(c) == SubSeq(c, 3, SEQ_NUM_SIZE)

\* places where dtls_write_records ends before the record is complete
WriteFails == {"mac_size", "numtempl", "alloc", "eivlen", "compress",
               "mte_mac", "enc", "etm_mac"}

\* the step is a call of dtls_write_records that completes a record and
\* hands it to the send loop
Builds == ws.pc = "idle" /\ ws'.pc = "pending"
         /\ wlast'.op = "dtls_write_records"
\* the step is a call of dtls_write_records that fails
BuildFails == ws.pc = "idle" /\ wlast'.op = "dtls_write_records"
              /\ wlast'.calls = wlast.calls + 1 /\ wlast'.v \in WriteFails
\* the step is a turn of the send loop
Sends == ws.pc = "pending"
\* an earlier call has completed a record, whose header is in the buffer
BuiltBefore == ws.wpend_buf # NULL

\* what holds of the counter whatever its value
CounterSteps(order(_, _)) ==
    /\ Builds
       => /\ ws'.wbuf.hdr.seq = Low48(ws.write_sequence)
          /\ ws'.wbuf.hdr.epoch = ws.w_epoch
          /\ PlusOneMod(ws.write_sequence, ws'.write_sequence, SEQ_NUM_SIZE)
          /\ BuiltBefore => order(ws.wbuf.hdr.seq, ws'.wbuf.hdr.seq)
    /\ BuildFails => ws'.write_sequence = ws.write_sequence
    /\ Sends
       => /\ ws'.write_sequence = ws.write_sequence
          /\ ws'.wbuf.hdr = ws.wbuf.hdr
          /\ sent' # sent
             => /\ sent' = Append(sent, sent'[Len(sent')])
                /\ sent'[Len(sent')].hdr.seq = Low48(wlast.seq)
                /\ PlusOneMod(wlast.seq, ws.write_sequence, SEQ_NUM_SIZE)

\* the next number of 48 bits, and larger
Successor(a, b) == PlusOne(a, b, 6) /\ Less6(a, b)
\* the next number modulo 2^48
SuccessorMod(a, b) == PlusOneMod(a, b, 6)

\* C14: a record completed by dtls_write_records carries in its header the
\* 48-bit value of the write sequence counter as it was before the call;
\* the counter then moves on by exactly one, before the send loop and
\* whatever the transport answers; a call that fails before the record is
\* complete leaves the counter as it was; and a record carries the number
\* after that of the record completed before it, which is a larger number.
C14_IncreasingSequence == [][CounterSteps(Successor)]_vars

\* the same with the number after taken modulo 2^48: this is what the
\* code does for every value of the counter
C14_SequenceModulo == [][CounterSteps(SuccessorMod)]_vars

\* the record after the one numbered 2^48 - 1 went out with number 0 in the
\* same epoch
C14_Witness ==
    /\ Len(sent) >= 2
    /\ sent[Len(sent) - 1].hdr.seq = MaxSeq6
    /\ sent[Len(sent)].hdr.seq = B6(0)
    /\ sent[Len(sent)].hdr.epoch = sent[Len(sent) - 1].hdr.epoch
    /\ sent[Len(sent)].offset = 0
    /\ ws.write_sequence = << 0, 1, 0, 0, 0, 0, 0, 1 >>

\* the step is a call of ssl3_write_pending as a retry
Retries == /\ ws.pc = "idle"
           /\ wlast'.op = "ssl3_write_pending"
           /\ wlast'.calls = wlast.calls + 1

\* the retry is refused: fatal error, -1, and nothing goes to the transport
Refused ==
    /\ wlast'.v = "bad_write_retry"
    /\ wlast'.ret = -1
    /\ ws'.alert = SSL_AD_INTERNAL_ERROR
    /\ ws'.reason = "SSL_R_BAD_WRITE_RETRY"
    /\ ws'.pc = "idle"
    /\ sent' = sent
    /\ ws'.wbuf = ws.wbuf
    /\ ws'.write_sequence = ws.write_sequence

C15_Step ==
    /\ Retries
       => IF \/ wlast'.len < ws.wpend_tot
             \/ wlast'.type # ws.wpend_type
             \/ (~ws.moving /\ wlast'.buf # ws.wpend_buf)
          THEN Refused
          ELSE /\ ws'.pc = "pending"
               /\ ws'.alert = SSL_AD_NO_ALERT
               /\ ws'.wbuf = ws.wbuf
    /\ wlast'.op = "dtls_write_records" => wlast'.v # "bad_write_retry"
Written == /\ Sends
           /\ ws.wbio
           /\ wlast'.v # "flush_failed"
\* the turn ends the call
Returns == Sends /\ ws'.pc = "idle"

\* C16 as stated: a send answering <= 0 empties the buffer and its answer is
\* returned; the function always returns with left = 0; a turn that does
\* not return lowers left
C16_AlwaysReturnsEmpty ==
    [][ /\ (Written /\ wlast'.io.write <= 0)
           => ( /\ Returns
                /\ ws'.wbuf.left = 0
                /\ wlast'.ret = wlast'.io.write
                /\ sent' = sent )
        /\ Returns => ws'.wbuf.left = 0
        /\ (Sends /\ ~Returns) => ws'.wbuf.left < ws.wbuf.left ]_vars

\* C16: when BIO_write answers <= 0 for a pending record, ssl3_write_pending
\* sets left to 0 and returns the answer, raising no alert; the bytes the
\* transport takes are always bytes of the record completed by the call in
\* progress, so a record dropped this way is never sent later.  The
\* function returns with left = 0 after a complete send, after the drop and
\* when no transport is set (fatal internal error, -1), but with left as it
\* was when the flush of a KTLS transport fails for a record that is not
\* application data: the answer of the flush is returned and nothing is
\* sent.  A turn of the loop that does not return lowers left and leaves it
\* positive.
C16_Step ==
    /\ (Written /\ wlast'.io.write <= 0)
       => ( /\ Returns
            /\ wlast'.v = "dropped"
            /\ ws'.wbuf.left = 0
            /\ wlast'.ret = wlast'.io.write
            /\ ws'.alert = ws.alert
            /\ sent' = sent )
    /\ Returns
       => IF wlast'.v = "flush_failed"
          THEN /\ ws.ktls /\ ws.arg_type # SSL3_RT_APPLICATION_DATA
               /\ ws'.wbuf.left = ws.wbuf.left
               /\ wlast'.ret = wlast'.io.flush /\ wlast'.ret <= 0
               /\ sent' = sent
          ELSE /\ ws'.wbuf.left = 0
               /\ ~ws.wbio => /\ wlast'.ret = -1
                              /\ ws'.alert = SSL_AD_INTERNAL_ERROR
                              /\ sent' = sent
    /\ (Sends /\ ~Returns)
       => ws'.wbuf.left < ws.wbuf.left /\ ws'.wbuf.left > 0
    /\ (Sends /\ sent' # sent)
       => /\ sent'[Len(sent')].hdr = ws.wbuf.hdr
          /\ sent'[Len(sent')].offset = ws.wbuf.offset
          /\ sent'[Len(sent')].hdr.seq = Low48(wlast.seq)
          /\ wlast.v \in {"pending", "partial"}
\* the send loop is entered with bytes to send
C16_Pending == ws.pc = "pending" => ws.wbuf.left > 0
C16_DropOnSendFailure == []C16_Pending /\ [][C16_Step]_vars

\* the first record of the epoch was dropped by a failed send; the second
\* went out whole, and the first never did
C16_Witness ==
    /\ ~ws.ktls
    /\ ws.write_sequence = << 0, 0, 0, 0, 0, 0, 0, 2 >>
    /\ Len(sent) = 1
    /\ sent[1].hdr.seq = B6(1)
    /\ sent[1].offset = 0
    /\ wlast.v = "sent"
    /\ ws.wbuf.left = 0
    /\ ws.pc = "idle"

\* the step is a call of dtls_write_records
Writes == /\ ws.pc = "idle"
          /\ wlast'.op = "dtls_write_records"
          /\ wlast'.calls = wlast.calls + 1

\* C17: a call of dtls_write_records with a number of templates other than
\* one raises a fatal internal error and returns -1; no write buffer is
\* allocated, nothing goes to the transport and the write sequence counter
\* is left as it was.  A call with one template is not refused for the
\* number of its templates.
C17_Step ==
    /\ (Writes /\ wlast'.numtempl # 1)
       => ( /\ wlast'.ret = -1
            /\ wlast'.v \in {"numtempl", "mac_size"}
            /\ ws'.alert = SSL_AD_INTERNAL_ERROR
            /\ ws'.pc = "idle"
            /\ ws'.wbuf = ws.wbuf
            /\ sent' = sent
            /\ ws'.write_sequence = ws.write_sequence )
    /\ (Writes /\ wlast'.numtempl = 1) => wlast'.v # "numtempl"
C17_OneTemplate == [][C17_Step]_vars

\* a first call with two templates was refused: no buffer, nothing sent,
\* the counter at its start value
C17_Witness ==
    /\ wlast.v = "numtempl"
    /\ wlast.numtempl = 2
    /\ wlast.ret = -1
    /\ wlast.calls = 1
    /\ ws.alert = SSL_AD_INTERNAL_ERROR
    /\ ~ws.wbuf.allocated
    /\ sent = << >>
    /\ ws.write_sequence = << 0, 0, 0, 0, 0, 0, 0, 255 >>

-----------------------------------------------------------------------------
(* Vocabulary of the properties of satsub64be: the difference of two 64-bit *)
(* numbers told from their bytes, without the subtraction of the code       *)

\* v + n = w as numbers of 8 bytes, for 0 <= n <= 128, without overflow
SumIs(v, n, w) ==
    LET low == v[SEQ_NUM_SIZE] + n
    IN  IF low < 256
        THEN w = [v EXCEPT ![SEQ_NUM_SIZE] = low]
        ELSE /\ w[SEQ_NUM_SIZE] = low - 256
             /\ PlusOne(SubSeq(v, 1, SEQ_NUM_SIZE - 1),
                        SubSeq(w, 1, SEQ_NUM_SIZE - 1), SEQ_NUM_SIZE - 1)

\* a - b = d, for -128 <= d <= 128
DifferenceIs(a, b, d) ==
    IF d >= 0 THEN SumIs(b, d, a) ELSE SumIs(a, -d, b)

\* a - b saturated to [-128, 128]
Saturated(a, b) ==
    IF \E d \in (-SatBound)..SatBound : DifferenceIs(a, b, d)
    THEN CHOOSE d \in (-SatBound)..SatBound : DifferenceIs(a, b, d)
    ELSE IF Less8(b, a) THEN SatBound ELSE -SatBound

\* a - b does not fit a signed 64-bit number: the two numbers are 2^63 or
\* more apart
Wraps(a, b) ==
    LET hi == IF Less8(b, a) THEN a ELSE b
        lo == IF Less8(b, a) THEN b ELSE a
    IN  \/ hi[1] - lo[1] > 128
        \/ /\ hi[1] - lo[1] = 128
           /\ \/ Less8(b, a) /\ ~Less8([hi EXCEPT ![1] = lo[1]], lo)
              \/ Less8(a, b) /\ Less8(lo, [hi EXCEPT ![1] = lo[1]])

\* C20: satsub64be(a, b) is a - b when |a - b| <= 128, 128 when a - b > 128
\* and -128 when a - b < -128, also when the 64-bit subtraction wraps
\* around the signed range: the bound then has the sign of the true order
\* of a and b.  The result is always within [-128, 128].
C20_SaturatingDifference ==
    probe.done
    => /\ probe.ret = Saturated(probe.v1, probe.v2)
       /\ probe.ret \in (-SatBound)..SatBound
       /\ Wraps(probe.v1, probe.v2)
          => probe.ret = IF Less8(probe.v2, probe.v1) THEN SatBound
                         ELSE -SatBound

\* 2^64 - 1 minus 0: the subtraction yields -1 as a signed number, and the
\* result is 128
C20_Witness ==
    /\ probe.done
    /\ probe.v1 = << 255, 255, 255, 255, 255, 255, 255, 255 >>
    /\ probe.v2 = ZeroSeq8
    /\ Wraps(probe.v1, probe.v2)
    /\ probe.ret = SatBound

-----------------------------------------------------------------------------
\* the item at the head of the processed queue
FirstProcessed == rl.processed_rcds.q[1]

\* C21: a pass of dtls_get_more_records that starts with a non-empty
\* processed queue takes the item of smallest priority off the queue,
\* installs its packet, record and sequence number in the layer and returns
\* success with exactly one record; the transport is not read, no alert is
\* raised and neither replay window is consulted or changed.  The transport
\* is read only in a pass that starts with that queue empty.
C21_Step ==
    /\ (pc = "again" /\ Len(rl.processed_rcds.q) > 0)
       => ( /\ last'.v = "processed"
            /\ pc' = "idle"
            /\ ret' = OSSL_RECORD_RETURN_SUCCESS
            /\ rl'.num_recs = 1
            /\ \A i \in 2..Len(rl.processed_rcds.q) :
                   Less8(FirstProcessed.priority, rl.processed_rcds.q[i].priority)
            /\ rl'.processed_rcds.q = Tail(rl.processed_rcds.q)
            /\ rl'.rrec = FirstProcessed.data.rrec
            /\ rl'.packet = FirstProcessed.data.packet
            /\ rl'.packet_length = FirstProcessed.data.packet_length
            /\ rl'.sequence = Seq8(FirstProcessed.data.packet.seq)
            /\ wire' = wire
            /\ rl'.alert = rl.alert
            /\ WindowsKept
            /\ delivered' = delivered
            /\ rl'.unprocessed_rcds = rl.unprocessed_rcds )
    /\ (pc = "again" /\ wire' # wire) => Len(rl.processed_rcds.q) = 0
    /\ (pc = "again" /\ last'.v = "processed") => Len(rl.processed_rcds.q) > 0
C21_ProcessedFirst == [][C21_Step]_vars

\* the record numbered 7 was handed out of the processed queue ahead of the
\* one numbered 9, with a datagram waiting in the transport untouched
C21_Witness ==
    /\ last.v = "processed"
    /\ pc = "idle"
    /\ ret = OSSL_RECORD_RETURN_SUCCESS
    /\ rl.num_recs = 1
    /\ rl.rrec.seq_num = Seq8(B6(7))
    /\ Len(rl.processed_rcds.q) = 1
    /\ rl.processed_rcds.q[1].priority = Seq8(B6(9))
    /\ wire = 1

-----------------------------------------------------------------------------
\* the length of the record once the encrypt-then-MAC tag is taken off
AuthLen ==
    IF rl.use_etm /\ rl.md_ctx THEN rl.rrec.length - MacSize(rl)
    ELSE rl.rrec.length

\* the length of the record once the cipher has taken off what it strips
DecryptedLen(c) == IF c.strip <= AuthLen THEN AuthLen - c.strip ELSE 0

\* the length of the record once it is decompressed
PlainLen(c) == IF rl.compctx THEN DecryptedLen(c) + c.grow ELSE DecryptedLen(c)

\* the record in the layer is decrypted and authenticated with the answers c
Authenticated(c) ==
    /\ rl.rrec.length <= SSL3_RT_MAX_ENCRYPTED_LENGTH
    /\ (rl.md_ctx /\ rl.md) => c.imac_ok
    /\ (rl.use_etm /\ rl.md_ctx)
          => (rl.rrec.length >= MacSize(rl) /\ c.etm_mac_ok)
    /\ c.cipher = "ok"
    /\ (~rl.use_etm /\ rl.enc_ctx /\ rl.md_ctx /\ rl.md)
          => ( /\ c.mte_mac_ok
               /\ DecryptedLen(c) <= SSL3_RT_MAX_COMPRESSED_LENGTH + MacSize(rl) )

\* the call returns fatal with the alert al and no record
FatalWith(al) ==
    /\ last'.v = "process_fatal"
    /\ pc' = "idle"
    /\ ret' = OSSL_RECORD_RETURN_FATAL
    /\ rl'.alert = al
    /\ rl'.num_recs = 0
    /\ delivered' = delivered
    /\ WindowsKept

\* C22: once a record is decrypted and authenticated, with a compression
\* context a decrypted length above SSL3_RT_MAX_COMPRESSED_LENGTH returns
\* fatal with record_overflow and a failed decompression returns fatal with
\* decompression_failure; a final length above max_frag_len returns fatal
\* with record_overflow.  No record is delivered in these cases, and an
\* authenticated record is never dropped in silence.
C22_Step ==
    (pc = "process" /\ Authenticated(last'.c))
    => ( /\ (rl.compctx /\ DecryptedLen(last'.c) > SSL3_RT_MAX_COMPRESSED_LENGTH)
              => FatalWith(SSL_AD_RECORD_OVERFLOW)
         /\ ( /\ rl.compctx
              /\ DecryptedLen(last'.c) <= SSL3_RT_MAX_COMPRESSED_LENGTH
              /\ ~last'.c.uncompress_ok )
              => FatalWith(SSL_AD_DECOMPRESSION_FAILURE)
         /\ ( /\ rl.compctx => ( /\ DecryptedLen(last'.c)
                                       <= SSL3_RT_MAX_COMPRESSED_LENGTH
                                  /\ last'.c.uncompress_ok )
              /\ PlainLen(last'.c) > rl.max_frag_len )
              => FatalWith(SSL_AD_RECORD_OVERFLOW)
         /\ last'.v \in {"process_fatal", "delivered"}
         /\ last'.v = "delivered" => PlainLen(last'.c) <= rl.max_frag_len )
C22_LateFailuresFatal == [][C22_Step]_vars

\* a record of 17420 bytes, authenticated under MAC-then-encrypt, with a
\* compression context: the call has returned fatal with record_overflow
C22_Witness ==
    /\ last.v = "process_fatal"
    /\ rl.compctx
    /\ last.c.cipher = "ok"
    /\ last.c.mte_mac_ok
    /\ last.c.etm_mac_ok
    /\ last.hdr.length = 17420
    /\ last.c.strip = 0
    /\ ~rl.use_etm
    /\ rl.alert = SSL_AD_RECORD_OVERFLOW
    /\ ret = OSSL_RECORD_RETURN_FATAL

-----------------------------------------------------------------------------
\* the priority of every queued record is made of its sequence number, and
\* the queued records are all of one epoch: two of them have the same
\* priority exactly when they have the same epoch and sequence number
PriorityOfRecord ==
    \A i \in 1..Len(rl.unprocessed_rcds.q) :
        LET it == rl.unprocessed_rcds.q[i]
        IN  /\ it.priority = Seq8(it.data.packet.seq)
            /\ it.data.packet.epoch = rl.epoch + 1

\* dtls_rlayer_buffer_record, called with the priority of the first, the
\* middle or the last item of a queue below its limit, reports 1 and leaves
\* the queue and the alert as they were
DuplicateReportsSuccess ==
    \A i \in {1, (Len(rl.unprocessed_rcds.q) + 1) \div 2,
               Len(rl.unprocessed_rcds.q)} \cap 1..Len(rl.unprocessed_rcds.q) :
        Len(rl.unprocessed_rcds.q) < QueueLimit
        => LET b == dtls_rlayer_buffer_record(rl, "unprocessed_rcds",
                        rl.unprocessed_rcds.q[i].priority, AOk)
           IN  /\ b.ret = 1
               /\ b.rl.unprocessed_rcds = rl.unprocessed_rcds
               /\ b.rl.alert = rl.alert

\* C23: a record that reaches the insertion into a deferred queue with the
\* priority of an item already queued is dropped in silence: the queue is as
\* it was in size and in contents, no alert is set,
\* dtls_rlayer_buffer_record reports 1 and the read loop goes on with the
\* next datagram.
C23_Step ==
    ( /\ NextEpochArrives
      /\ Len(rl.unprocessed_rcds.q) < QueueLimit
      /\ last'.a = AOk
      /\ \E i \in 1..Len(rl.unprocessed_rcds.q) :
            rl.unprocessed_rcds.q[i].priority = Seq8(last'.hdr.seq) )
    => ( /\ last'.v = "queue_duplicate"
         /\ SilentDrop
         /\ rl'.processed_rcds = rl.processed_rcds
         /\ HeaderReadNext )
C23_DuplicateDropped ==
    [](PriorityOfRecord /\ DuplicateReportsSuccess) /\ [][C23_Step]_vars

\* with forty records queued, a record with the sequence number of one of
\* them arrived and was dropped, the queue still holding forty
C23_Witness ==
    /\ last.v = "queue_duplicate"
    /\ pc = "again"
    /\ rl.alert = SSL_AD_NO_ALERT
    /\ Len(rl.unprocessed_rcds.q) = 40
    /\ \E i \in 1..40 :
          /\ rl.unprocessed_rcds.q[i].priority = Seq8(last.hdr.seq)
          /\ rl.unprocessed_rcds.q[i].data.packet.epoch = last.hdr.epoch

-----------------------------------------------------------------------------
\* the call failed after both queues were allocated: the version is not one
\* of the switch, or set_crypto_state did not succeed
FailsLate ==
    /\ probe.a.int_ok /\ probe.a.uq_ok /\ probe.a.pq_ok
    /\ \/ probe.a.vers \notin SupportedVersions
       \/ probe.a.crypto # OSSL_RECORD_RETURN_SUCCESS

-----------------------------------------------------------------------------
\* the window as the constructor leaves it
FreshWindow == [max_seq_num |-> ZeroSeq8, map |-> {}]

\* the verdict of the replay check against the next window for a record
\* with the 8-byte sequence number s, in the layer r
NextVerdict(r, s) ==
    dtls_record_replay_check([r EXCEPT !.sequence = s], "next_bitmap").ret

\* the sequence numbers the verdict is taken on
ProbeSeqs == {Seq8(B6(0)), Seq8(B6(1)), Seq8(B6(64)), Seq8(MaxSeq6)}

\* the next window is as the constructor left it, and the replay check
\* against it lets a record through whatever was buffered before
NextWindowFresh ==
    /\ rl.next_bitmap = FreshWindow
    /\ \A s \in ProbeSeqs : NextVerdict(rl, s) = 1

\* C25: no step changes the next-epoch replay window.  A record routed to it
\* ends buffered or dropped and never enters dtls_process_record, the
\* current window is the only one that is marked, and marked only by a
\* record of the current epoch that is delivered.  The replay check against
\* the next window answers in every state what it answers after
\* construction, so a next-epoch datagram that arrives again passes it
\* again: with in_init set, room in the queue and allocation succeeding,
\* the copy ends at the queue, which refuses its priority.
C25_Step ==
    /\ rl'.next_bitmap = rl.next_bitmap
    /\ rl'.bitmap # rl.bitmap
         => (pc = "again" /\ last'.v = "delivered"
             /\ last'.hdr.epoch = rl.epoch)
    /\ (pc = "again" /\ Routed(last'.v) /\ last'.hdr.epoch = rl.epoch + 1)
         => last'.v \in NextEnds \cup {"no_route", "zero_length"}
    /\ ( /\ pc = "again"
         /\ Routed(last'.v)
         /\ \E i \in 1..Len(rl.unprocessed_rcds.q) :
               rl.unprocessed_rcds.q[i].data.packet = last'.hdr )
         => ( /\ last'.v \in NextEnds
              /\ ( /\ rl.in_init = 1
                   /\ Len(rl.unprocessed_rcds.q) < QueueLimit
                   /\ last'.a = AOk ) => last'.v = "queue_duplicate" )
C25_NextWindowUntouched ==
    []NextWindowFresh /\ [][C25_Step]_vars

\* a record of the current epoch was delivered and marked in the current
\* window, a record of the next epoch was buffered, and its second arrival
\* passed the replay check and was refused by the queue; the next window is
\* as the constructor left it
C25_Witness ==
    /\ last.v = "queue_duplicate"
    /\ rl.bitmap.map # {}
    /\ rl.next_bitmap = FreshWindow
    /\ Len(rl.unprocessed_rcds.q) = 1
    /\ rl.unprocessed_rcds.q[1].data.packet = last.hdr
    /\ last.hdr.epoch = rl.epoch + 1

-----------------------------------------------------------------------------
\* the input a call can still draw on is less after the step: an item of
\* the processed queue, a datagram of the transport, or a record left in
\* the read buffer has gone, and nothing has been added before it
Consumed ==
    \/ Len(rl'.processed_rcds.q) < Len(rl.processed_rcds.q)
    \/ /\ Len(rl'.processed_rcds.q) = Len(rl.processed_rcds.q)
       /\ wire' < wire
    \/ /\ Len(rl'.processed_rcds.q) = Len(rl.processed_rcds.q)
       /\ wire' = wire
       /\ rl'.rbuf_left < rl.rbuf_left

\* between calls, num_recs is 1 after a success and 0 otherwise
NumRecsIffSuccess ==
    pc = "idle"
    => ( /\ rl.num_recs \in {0, 1}
         /\ rl.num_recs = 1 <=> ret = OSSL_RECORD_RETURN_SUCCESS )

\* C26: a pass from the label again either returns or consumes input, and
\* returns when there is no input left, with retry or with an error; no
\* input arrives during a call.  A call that returns leaves num_recs at 1
\* if it returns success and at 0 otherwise.  Hence every call of
\* dtls_get_more_records returns.
C26_Step ==
    /\ pc = "again"
         => ( /\ pc' = "idle" \/ (pc' = "again" /\ Consumed)
              /\ wire' <= wire
              /\ ( /\ wire = 0
                   /\ rl.rbuf_left = 0
                   /\ Len(rl.processed_rcds.q) = 0 )
                   => ( /\ pc' = "idle"
                        /\ ret' \in {OSSL_RECORD_RETURN_RETRY,
                                     OSSL_RECORD_RETURN_FATAL}
                        /\ rl'.num_recs = 0 ) )
    /\ (pc # "idle" /\ pc' = "idle")
         => (rl'.num_recs = 1 <=> ret' = OSSL_RECORD_RETURN_SUCCESS)
C26_CallsTerminate ==
    /\ []NumRecsIffSuccess
    /\ [][C26_Step]_vars
    /\ (pc = "again") ~> (pc = "idle")

\* a call went through a pass that dropped a datagram and went back to the
\* label again, found the transport empty and returned retry with no record
C26_Witness ==
    /\ pc = "idle"
    /\ last.v = "read_error"
    /\ ret = OSSL_RECORD_RETURN_RETRY
    /\ rl.num_recs = 0
    /\ wire = 0
    /\ rl.alert = SSL_AD_NO_ALERT
    /\ Len(rl.unprocessed_rcds.q) > 0

====
